---------------------------- MODULE Spec2Model ----------------------------
(***************************************************************************)
(* Geofenced attendance and anomaly detection of the KWV backend           *)
(* (src/backend/kwv_api.py): the workplace registry, the attendance        *)
(* ledger, the anomaly case store and the handlers that read and write     *)
(* them.                                                                   *)
(*                                                                         *)
(* Time is the database clock (NOW(), CURDATE(), the column defaults of    *)
(* check_time and created_at) in minutes; the application clock of         *)
(* datetime.now() is taken to be the same clock.  Coordinates are in       *)
(* microdegrees.  A QR token is a natural number; a token minted by        *)
(* uuid.uuid4() is modelled as one never issued before.                    *)
(***************************************************************************)
EXTENDS Integers, Sequences, FiniteSets, TLC

VARIABLES
    now,            \* the database clock, in minutes
    workplaces,     \* kwv_workplaces: id -> row
    nextQr,         \* the next token uuid4 will mint
    oldQr,          \* history: the tokens regenerate_qr has replaced
    attendance,     \* kwv_attendance: the ledger, in insertion order
    rules,          \* kwv_anomaly_rules: rule_key -> row
    anomalies,      \* kwv_anomalies: id -> row, in insertion order
    notifications,  \* kwv_notifications, in insertion order
    assignments,    \* kwv_worker_assignments: id -> row, in insertion order
    pending,        \* the requests that have read and not yet written
    last            \* the request last served and its response

vars == <<now, workplaces, nextQr, oldQr, attendance, rules, anomalies,
          notifications, assignments, pending, last>>

----------------------------------------------------------------------------
(* Bounds of the model *)

\* ledger rows the model lets the handlers write
MaxLedger == 2
\* minutes the clock runs in the attendance specification
MaxMinutes == 6
\* regenerate_qr calls
MaxRegen == 1
\* rows of kwv_anomalies the model lets the scans write
MaxCases == 2
\* rows of kwv_worker_assignments
MaxAssign == 3
\* requests in flight at one time
MaxInflight == 2

----------------------------------------------------------------------------
(* Values *)

\* None in Python, NULL in SQL
NULL == 0 - 1

\* None or NULL where the value is a message; a message is the tuple of the
\* numbers it embeds
NO_TEXT == <<>>

\* `if x`, `x or d`, `not x` on an optional number: None and 0 are falsy
Truthy(x) == x # NULL /\ x # 0

MinutesPerDay == 24 * 60

\* DATE(t), as a day number
DATE(t) == t \div MinutesPerDay

\* check_time > DATE_SUB(NOW(), INTERVAL 5 MINUTE)
DUPLICATE_MINUTES == 5

\* wp_radius or 200
DEFAULT_RADIUS == 200

\* the registered point of a workplace (37.566500 N) and the longitude all
\* points of the model lie on (126.978000 E)
SiteLat == 37 * 1000000 + 566500
SiteLon == 126 * 1000000 + 978000

\* submitted (latitude, longitude): none, at the site, 1500 and 3500
\* microdegrees north of it, and on the equator
GpsInputs ==
    { <<NULL, NULL>>, <<SiteLat, SiteLon>>, <<SiteLat + 1500, SiteLon>>,
      <<SiteLat + 3500, SiteLon>>, <<0, SiteLon>> }

\* authenticated callers that submit attendance (kwv_users.id)
Workers == {1, 2}

\* rows of kwv_workplaces
WpIds == {1, 2}

\* the tokens of the two rows are 1 and 2; uuid4 mints from here on
FirstFreshQr == Cardinality(WpIds) + 1

CheckTypes == {"check_in", "check_out"}

\* an applicant whose registration is not approved (kwv_users.is_approved =
\* 0); login asks for is_active only, so this user submits attendance too
Unapproved == {5}

\* the token payload of a caller (decode_token): workers 1 and 2 and user 5
\* are applicants, 3 is an administrator of level 1, 4 one of level 9, 6 one
\* of level 5
Payload(u) ==
    [sub |-> u,
     user_type |-> IF u \in Workers \cup Unapproved THEN "applicant"
                   ELSE "admin",
     admin_level |-> IF u = 4 THEN 9 ELSE IF u = 3 THEN 1
                     ELSE IF u = 6 THEN 5 ELSE 0]

Admins == {3, 4}

\* require_admin_level(user, min_level): the 403 it raises, or 0
require_admin_level(user, min_level) ==
    IF user.user_type # "admin" THEN 403
    ELSE IF user.admin_level < min_level THEN 403
    ELSE 0

\* require_admin(user)
require_admin(user) == IF user.user_type # "admin" THEN 403 ELSE 0

Abs(x) == IF x < 0 THEN 0 - x ELSE x

\* haversine(), in millimetres, for two points on one meridian: with
\* dlambda = 0, a = sin(dphi/2)^2 and the result is R * |dphi|.
\* R * pi / 180 = 6371000 * (355/113) / 180 m per degree
\*              = 452341 / 4068 mm per microdegree.
haversine(lat1, lon1, lat2, lon2) ==
    (Abs(lat2 - lat1) * 452341) \div 4068

\* int(haversine(...)), in metres
IntMetres(mm) == mm \div 1000

----------------------------------------------------------------------------
(* attendance_check *)

\* a lookup that forgets the active flag
QrMatchesAnyState(qr) ==
    { w \in WpIds : workplaces[w].qr_code = qr }

\* SELECT id FROM kwv_workplaces WHERE qr_code = %s AND is_active = 1
QrMatches(qr) ==
    { w \in WpIds : workplaces[w].qr_code = qr /\ workplaces[w].is_active }

\* a resolution whose QR lookup does not raise: the request falls through to
\* the missing-identifier check
ResolveWorkplaceNoRaise(workplace_id, qr_code) ==
    IF Truthy(qr_code) /\ ~Truthy(workplace_id) /\ QrMatches(qr_code) # {}
    THEN [error |-> 0, id |-> CHOOSE w \in QrMatches(qr_code) : TRUE]
    ELSE IF ~Truthy(workplace_id)
         THEN [error |-> 400, id |-> NULL]
         ELSE IF workplace_id \notin WpIds
              THEN [error |-> 404, id |-> NULL]
              ELSE [error |-> 0, id |-> workplace_id]

\* a resolution that answers an unknown workplace_id like a missing one
ResolveWorkplaceUnknownAsMissing(workplace_id, qr_code) ==
    IF Truthy(qr_code) /\ ~Truthy(workplace_id)
    THEN IF QrMatches(qr_code) = {}
         THEN [error |-> 404, id |-> NULL]
         ELSE [error |-> 0, id |-> CHOOSE w \in QrMatches(qr_code) : TRUE]
    ELSE IF ~Truthy(workplace_id) \/ workplace_id \notin WpIds
         THEN [error |-> 400, id |-> NULL]
         ELSE [error |-> 0, id |-> workplace_id]

\* a resolution that asks for an active workplace on both paths
ResolveWorkplaceActiveOnly(workplace_id, qr_code) ==
    IF Truthy(qr_code) /\ ~Truthy(workplace_id)
    THEN IF QrMatches(qr_code) = {}
         THEN [error |-> 404, id |-> NULL]
         ELSE [error |-> 0, id |-> CHOOSE w \in QrMatches(qr_code) : TRUE]
    ELSE IF ~Truthy(workplace_id)
         THEN [error |-> 400, id |-> NULL]
         ELSE IF workplace_id \notin WpIds
              THEN [error |-> 404, id |-> NULL]
              ELSE IF ~workplaces[workplace_id].is_active
                   THEN [error |-> 404, id |-> NULL]
                   ELSE [error |-> 0, id |-> workplace_id]

\* the workplace the request resolves to, or the error it ends with
ResolveWorkplace(workplace_id, qr_code) ==
    IF Truthy(qr_code) /\ ~Truthy(workplace_id)
    THEN IF QrMatches(qr_code) = {}
         THEN [error |-> 404, id |-> NULL]
         ELSE [error |-> 0, id |-> CHOOSE w \in QrMatches(qr_code) : TRUE]
    ELSE IF ~Truthy(workplace_id)
         THEN [error |-> 400, id |-> NULL]
         ELSE IF workplace_id \notin WpIds
              THEN [error |-> 404, id |-> NULL]
              ELSE [error |-> 0, id |-> workplace_id]

\* a radius read without its default
EffectiveRadiusNoDefault(wp_radius) == wp_radius

\* wp_radius = wp_radius or 200
EffectiveRadius(wp_radius) ==
    IF Truthy(wp_radius) THEN wp_radius ELSE DEFAULT_RADIUS

\* a test that takes a longitude of 0 for a coordinate like any other
DistanceCheckedZeroLongitude(lat, lon, wp_lat, wp_lon) ==
    Truthy(lat) /\ lon # NULL /\ Truthy(wp_lat) /\ wp_lon # NULL

\* if data.latitude and data.longitude and wp_lat and wp_lon
DistanceChecked(lat, lon, wp_lat, wp_lon) ==
    Truthy(lat) /\ Truthy(lon) /\ Truthy(wp_lat) /\ Truthy(wp_lon)

\* a validation that holds a submission without a distance to be invalid
ValidateStrict(lat, lon, wp_lat, wp_lon, wp_radius) ==
    IF DistanceChecked(lat, lon, wp_lat, wp_lon)
    THEN LET distance == IntMetres(haversine(lat, lon, wp_lat, wp_lon))
         IN  IF distance > wp_radius
             THEN [distance |-> distance, is_valid |-> FALSE,
                   invalid_reason |-> <<distance, wp_radius>>]
             ELSE [distance |-> distance, is_valid |-> TRUE,
                   invalid_reason |-> NO_TEXT]
    ELSE [distance |-> NULL, is_valid |-> FALSE, invalid_reason |-> NO_TEXT]

\* distance, is_valid and invalid_reason of a submission; the reason is the
\* message's two embedded numbers
Validate(lat, lon, wp_lat, wp_lon, wp_radius) ==
    IF DistanceChecked(lat, lon, wp_lat, wp_lon)
    THEN LET distance == IntMetres(haversine(lat, lon, wp_lat, wp_lon))
         IN  IF distance > wp_radius
             THEN [distance |-> distance, is_valid |-> FALSE,
                   invalid_reason |-> <<distance, wp_radius>>]
             ELSE [distance |-> distance, is_valid |-> TRUE,
                   invalid_reason |-> NO_TEXT]
    ELSE [distance |-> NULL, is_valid |-> TRUE, invalid_reason |-> NO_TEXT]

\* a guard whose window is the calendar day
DuplicateRowsSameDay(user_id, workplace_id, check_type) ==
    { i \in 1..Len(attendance) :
        /\ attendance[i].user_id = user_id
        /\ attendance[i].workplace_id = workplace_id
        /\ attendance[i].check_type = check_type
        /\ DATE(attendance[i].check_time) = DATE(now) }

\* a guard that leaves check_type out of its key
DuplicateRowsAnyType(user_id, workplace_id, check_type) ==
    { i \in 1..Len(attendance) :
        /\ attendance[i].user_id = user_id
        /\ attendance[i].workplace_id = workplace_id
        /\ attendance[i].check_time > now - DUPLICATE_MINUTES }

\* SELECT id FROM kwv_attendance WHERE user_id = %s AND workplace_id = %s
\*   AND check_type = %s AND check_time > DATE_SUB(NOW(), INTERVAL 5 MINUTE)
DuplicateRows(user_id, workplace_id, check_type) ==
    { i \in 1..Len(attendance) :
        /\ attendance[i].user_id = user_id
        /\ attendance[i].workplace_id = workplace_id
        /\ attendance[i].check_type = check_type
        /\ attendance[i].check_time > now - DUPLICATE_MINUTES }

\* check_method = 'qr' if data.qr_code else 'gps'
CheckMethod(qr_code) == IF Truthy(qr_code) THEN "qr" ELSE "gps"

\* the row the INSERT writes for a submission resolved to workplace wp_id
AttRow(user_id, wp_id, qr_code, check_type, lat, lon) ==
    LET wp == workplaces[wp_id]
        v == Validate(lat, lon, wp.latitude, wp.longitude,
                      EffectiveRadius(wp.geofence_radius))
    IN  [user_id |-> user_id, workplace_id |-> wp_id,
         check_type |-> check_type, check_method |-> CheckMethod(qr_code),
         latitude |-> lat, longitude |-> lon,
         distance |-> v.distance, is_valid |-> v.is_valid,
         invalid_reason |-> v.invalid_reason, check_time |-> now]

\* the handler's answer in the current state: the HTTP status and, when the
\* submission is accepted, the row it inserts
AttOutcome(db, user_id, workplace_id, qr_code, check_type, lat, lon) ==
    LET res == ResolveWorkplace(workplace_id, qr_code) IN
    IF ~db THEN [status |-> 503]
    ELSE IF res.error # 0 THEN [status |-> res.error]
    ELSE IF DuplicateRows(user_id, res.id, check_type) # {}
    THEN [status |-> 429]
    ELSE [status |-> 200,
          row |-> AttRow(user_id, res.id, qr_code, check_type, lat, lon)]

\* a handler that inserts before it looks for the duplicate
attendance_check_InsertFirst(db, user_id, workplace_id, qr_code, check_type, lat, lon) ==
    LET out == AttOutcome(db, user_id, workplace_id, qr_code, check_type,
                          lat, lon)
        res == ResolveWorkplace(workplace_id, qr_code)
    IN
    /\ out.status \in {200, 429} => Len(attendance) < MaxLedger
    /\ attendance' = IF out.status \in {200, 429}
                     THEN Append(attendance,
                                 AttRow(user_id, res.id, qr_code, check_type,
                                        lat, lon))
                     ELSE attendance
    /\ last' = [op |-> "attendance_check", status |-> out.status,
                workplace_id |-> workplace_id, qr_code |-> qr_code]
    /\ UNCHANGED <<now, workplaces, nextQr, oldQr, rules, anomalies,
                   notifications, assignments, pending>>

attendance_check(db, user_id, workplace_id, qr_code, check_type, lat, lon) ==
    LET out == AttOutcome(db, user_id, workplace_id, qr_code, check_type,
                          lat, lon)
    IN
    /\ out.status = 200 => Len(attendance) < MaxLedger
    /\ attendance' = IF out.status = 200
                     THEN Append(attendance, out.row)
                     ELSE attendance
    /\ last' = [op |-> "attendance_check", status |-> out.status,
                workplace_id |-> workplace_id, qr_code |-> qr_code]
    /\ UNCHANGED <<now, workplaces, nextQr, oldQr, rules, anomalies,
                   notifications, assignments, pending>>

----------------------------------------------------------------------------
(* admin_manual_check, update_workplace, regenerate_qr *)

ManualOutcome(db, caller, target_user_id, workplace_id, check_type) ==
    IF require_admin_level(Payload(caller), 2) # 0 THEN [status |-> 403]
    ELSE IF ~Truthy(target_user_id) \/ ~Truthy(workplace_id)
    THEN [status |-> 400]
    ELSE IF ~db THEN [status |-> 503]
    ELSE [status |-> 200,
          row |-> [user_id |-> target_user_id, workplace_id |-> workplace_id,
                   check_type |-> check_type, check_method |-> "admin",
                   latitude |-> NULL, longitude |-> NULL,
                   distance |-> NULL, is_valid |-> TRUE,
                   invalid_reason |-> NO_TEXT, check_time |-> now]]

admin_manual_check(db, caller, target_user_id, workplace_id, check_type) ==
    LET out == ManualOutcome(db, caller, target_user_id, workplace_id,
                             check_type)
    IN
    /\ out.status = 200 => Len(attendance) < MaxLedger
    /\ attendance' = IF out.status = 200
                     THEN Append(attendance, out.row)
                     ELSE attendance
    /\ last' = [op |-> "admin_manual_check", status |-> out.status]
    /\ UNCHANGED <<now, workplaces, nextQr, oldQr, rules, anomalies,
                   notifications, assignments, pending>>

\* the columns of kwv_workplaces the model keeps, all of them in `allowed`
WpColumns == {"latitude", "longitude", "geofence_radius", "is_active"}

\* UPDATE kwv_workplaces SET k = v, ... : the row after the update
UpdatedRow(row, body) ==
    [k \in DOMAIN row |->
        IF k \in DOMAIN body \cap WpColumns THEN body[k] ELSE row[k]]

\* an update that judges the workplace's records again by its new radius
update_workplace_Revalidate(db, caller, wp_id, body) ==
    /\ UNCHANGED <<now, nextQr, oldQr, rules, anomalies, notifications,
                   assignments, pending>>
    /\ IF require_admin_level(Payload(caller), 2) # 0
       THEN /\ last' = [op |-> "update_workplace", status |-> 403]
            /\ UNCHANGED <<workplaces, attendance>>
       ELSE IF ~db
       THEN /\ last' = [op |-> "update_workplace", status |-> 503]
            /\ UNCHANGED <<workplaces, attendance>>
       ELSE IF DOMAIN body \cap WpColumns = {}
       THEN /\ last' = [op |-> "update_workplace", status |-> 400]
            /\ UNCHANGED <<workplaces, attendance>>
       ELSE IF wp_id \notin WpIds
       THEN /\ last' = [op |-> "update_workplace", status |-> 404]
            /\ UNCHANGED <<workplaces, attendance>>
       ELSE IF UpdatedRow(workplaces[wp_id], body) = workplaces[wp_id]
       THEN /\ last' = [op |-> "update_workplace", status |-> 404]
            /\ UNCHANGED <<workplaces, attendance>>
       ELSE /\ workplaces' =
                [workplaces EXCEPT ![wp_id] = UpdatedRow(@, body)]
            /\ attendance' =
                [i \in 1..Len(attendance) |->
                    IF /\ attendance[i].workplace_id = wp_id
                       /\ attendance[i].distance # NULL
                    THEN [attendance[i] EXCEPT
                            !.is_valid =
                               attendance[i].distance <=
                                 EffectiveRadius(
                                   workplaces'[wp_id].geofence_radius)]
                    ELSE attendance[i]]
            /\ last' = [op |-> "update_workplace", status |-> 200]

update_workplace(db, caller, wp_id, body) ==
    /\ UNCHANGED <<now, nextQr, oldQr, attendance, rules, anomalies,
                   notifications, assignments, pending>>
    /\ IF require_admin_level(Payload(caller), 2) # 0
       THEN /\ last' = [op |-> "update_workplace", status |-> 403]
            /\ UNCHANGED workplaces
       ELSE IF ~db
       THEN /\ last' = [op |-> "update_workplace", status |-> 503]
            /\ UNCHANGED workplaces
       ELSE IF DOMAIN body \cap WpColumns = {}
       THEN /\ last' = [op |-> "update_workplace", status |-> 400]
            /\ UNCHANGED workplaces
       ELSE IF wp_id \notin WpIds
       THEN /\ last' = [op |-> "update_workplace", status |-> 404]
            /\ UNCHANGED workplaces
       ELSE IF UpdatedRow(workplaces[wp_id], body) = workplaces[wp_id]
       THEN \* cursor.rowcount counts the rows changed: none here
            /\ last' = [op |-> "update_workplace", status |-> 404]
            /\ UNCHANGED workplaces
       ELSE /\ workplaces' =
                [workplaces EXCEPT ![wp_id] = UpdatedRow(@, body)]
            /\ last' = [op |-> "update_workplace", status |-> 200]

regenerate_qr(db, caller, wp_id) ==
    /\ UNCHANGED <<now, attendance, rules, anomalies, notifications,
                   assignments, pending>>
    /\ IF require_admin_level(Payload(caller), 2) # 0
       THEN /\ last' = [op |-> "regenerate_qr", status |-> 403]
            /\ UNCHANGED <<workplaces, nextQr, oldQr>>
       ELSE IF ~db
       THEN /\ last' = [op |-> "regenerate_qr", status |-> 503]
            /\ UNCHANGED <<workplaces, nextQr, oldQr>>
       ELSE IF wp_id \notin WpIds
       THEN /\ last' = [op |-> "regenerate_qr", status |-> 404]
            /\ UNCHANGED <<workplaces, nextQr, oldQr>>
       ELSE /\ nextQr < FirstFreshQr + MaxRegen
            /\ workplaces' = [workplaces EXCEPT ![wp_id].qr_code = nextQr]
            /\ nextQr' = nextQr + 1
            /\ oldQr' = oldQr \cup {workplaces[wp_id].qr_code}
            /\ last' = [op |-> "regenerate_qr", status |-> 200]

----------------------------------------------------------------------------
(* assign_worker, remove_assignment *)

\* the status a new kwv_worker_assignments row takes when the INSERT names
\* none
DefaultAssignmentStatus == "active"

\* a duplicate query that forgets the status
ActiveAssignmentsAnyStatus(user_id, wp_id) ==
    { i \in 1..Len(assignments) :
        /\ assignments[i].user_id = user_id
        /\ assignments[i].workplace_id = wp_id }

\* SELECT id FROM kwv_worker_assignments
\*   WHERE user_id = %s AND workplace_id = %s AND status = 'active'
ActiveAssignments(user_id, wp_id) ==
    { i \in 1..Len(assignments) :
        /\ assignments[i].user_id = user_id
        /\ assignments[i].workplace_id = wp_id
        /\ assignments[i].status = "active" }

\* the response of assign_worker and the table it leaves
AssignOutcome(db, caller, wp_id, user_id) ==
    IF require_admin_level(Payload(caller), 2) # 0
    THEN [status |-> 403, assignments |-> assignments]
    ELSE IF ~Truthy(user_id)
    THEN [status |-> 400, assignments |-> assignments]
    ELSE IF ~db
    THEN [status |-> 503, assignments |-> assignments]
    ELSE IF wp_id \notin WpIds
    THEN [status |-> 404, assignments |-> assignments]
    ELSE IF ActiveAssignments(user_id, wp_id) # {}
    THEN [status |-> 409, assignments |-> assignments]
    ELSE [status |-> 200,
          assignments |->
            Append(assignments,
                   [user_id |-> user_id, workplace_id |-> wp_id,
                    status |-> DefaultAssignmentStatus])]

assign_worker(db, caller, wp_id, user_id) ==
    LET out == AssignOutcome(db, caller, wp_id, user_id) IN
    /\ out.status = 200 => Len(assignments) < MaxAssign
    /\ assignments' = out.assignments
    /\ last' = [op |-> "assign_worker", status |-> out.status]
    /\ UNCHANGED <<now, workplaces, nextQr, oldQr, attendance, rules,
                   anomalies, notifications, pending>>

\* the response of remove_assignment and the table it leaves:
\* UPDATE ... SET status = 'completed' WHERE id = %s AND status = 'active'
RemoveOutcome(db, caller, assignment_id) ==
    IF require_admin_level(Payload(caller), 2) # 0
    THEN [status |-> 403, assignments |-> assignments]
    ELSE IF ~db
    THEN [status |-> 503, assignments |-> assignments]
    ELSE IF \/ assignment_id \notin 1..Len(assignments)
            \/ assignments[assignment_id].status # "active"
    THEN [status |-> 404, assignments |-> assignments]
    ELSE [status |-> 200,
          assignments |->
            [assignments EXCEPT ![assignment_id].status = "completed"]]

remove_assignment(db, caller, assignment_id) ==
    LET out == RemoveOutcome(db, caller, assignment_id) IN
    /\ assignments' = out.assignments
    /\ last' = [op |-> "remove_assignment", status |-> out.status]
    /\ UNCHANGED <<now, workplaces, nextQr, oldQr, attendance, rules,
                   anomalies, notifications, pending>>

----------------------------------------------------------------------------
(* attendance_summary *)

\* a rounding that drops the digits after the first decimal
RoundDown(num, den) == num \div den

\* round(num / den) to the nearest integer, a tie going to the even one, as
\* Python's round does
RoundHalfEven(num, den) ==
    LET q == num \div den
        r == num % den
    IN  IF 2 * r < den THEN q
        ELSE IF 2 * r > den THEN q + 1
        ELSE IF q % 2 = 0 THEN q ELSE q + 1

\* the ledger rows of a date, of one workplace when the request names one
SummaryRows(target_date, workplace_id) ==
    { i \in 1..Len(attendance) :
        /\ DATE(attendance[i].check_time) = target_date
        /\ Truthy(workplace_id) =>
              attendance[i].workplace_id = workplace_id }

\* COUNT(DISTINCT a.user_id) of the rows of one check_type
SummaryDistinct(target_date, workplace_id, check_type) ==
    Cardinality({ attendance[i].user_id :
                    i \in { j \in SummaryRows(target_date, workplace_id) :
                              attendance[j].check_type = check_type } })

\* SELECT COUNT(*) FROM kwv_worker_assignments WHERE [workplace_id = %s AND]
\* status = 'active'
SummaryWorkers(workplace_id) ==
    Cardinality({ i \in 1..Len(assignments) :
                    /\ assignments[i].status = "active"
                    /\ Truthy(workplace_id) =>
                          assignments[i].workplace_id = workplace_id })

\* round(total_checkins / total_workers * 100, 1) if total_workers > 0
\* else 0, in tenths of a percent
AttendanceRate(total_checkins, total_workers) ==
    IF total_workers > 0
    THEN RoundHalfEven(1000 * total_checkins, total_workers)
    ELSE 0

\* the response of attendance_summary; without a connection it is {}
SummaryOutcome(db, caller, date, workplace_id) ==
    LET target_date == IF Truthy(date) THEN date ELSE DATE(now)
        rows == SummaryRows(target_date, workplace_id)
        total_checkins ==
          SummaryDistinct(target_date, workplace_id, "check_in")
        total_workers == SummaryWorkers(workplace_id)
    IN
    IF require_admin(Payload(caller)) # 0 THEN [status |-> 403]
    ELSE IF ~db THEN [status |-> 200]
    ELSE [status |-> 200,
          date |-> target_date,
          total_workers |-> total_workers,
          total_checkins |-> total_checkins,
          total_checkouts |->
            SummaryDistinct(target_date, workplace_id, "check_out"),
          valid_records |->
            Cardinality({ i \in rows : attendance[i].is_valid }),
          invalid_records |->
            Cardinality({ i \in rows : ~attendance[i].is_valid }),
          attendance_rate |-> AttendanceRate(total_checkins, total_workers)]

attendance_summary(db, caller, date, workplace_id) ==
    /\ last' = [op |-> "attendance_summary",
                workplace_id |-> workplace_id,
                response |-> SummaryOutcome(db, caller, date, workplace_id)]
    /\ UNCHANGED <<now, workplaces, nextQr, oldQr, attendance, rules,
                   anomalies, notifications, assignments, pending>>

----------------------------------------------------------------------------
(* scan_anomalies, resolve_anomaly *)

\* kwv_users: the rows the scan reads
kwv_users(u) ==
    [user_type |-> Payload(u).user_type,
     is_active |-> TRUE, is_approved |-> u \notin Unapproved,
     admin_level |-> Payload(u).admin_level]

\* the ids of kwv_users, in the order a SELECT returns them
UserOrder == <<1, 2, 3, 4, 5, 6>>

\* kwv_anomaly_rules: the three rules, active; absent_3days leaves its
\* threshold to the default, no_checkout_3 is tuned to 1
RuleTable ==
    [k \in {"absent_3days", "gps_violation", "no_checkout_3"} |->
        [is_active |-> TRUE,
         threshold |-> IF k = "absent_3days" THEN NULL
                       ELSE IF k = "gps_violation" THEN 2 ELSE 1,
         score |-> IF k = "absent_3days" THEN 30
                   ELSE IF k = "gps_violation" THEN 20 ELSE 10]]

\* a load that forgets WHERE is_active=1
LoadedRulesAnyFlag == DOMAIN rules

\* rules = {r['rule_key']: r for r in <SELECT ... WHERE is_active=1>};
\* rules.get(key) is truthy exactly for these keys
LoadedRules == { k \in DOMAIN rules : rules[k].is_active }

\* rule['threshold'] or 3
ThresholdOr3(rule) == IF Truthy(rule.threshold) THEN rule.threshold ELSE 3

\* DATE_SUB(NOW(), INTERVAL n DAY)
DaysAgo(n) == now - n * MinutesPerDay

\* INSERT INTO kwv_anomalies (user_id, anomaly_type, score, description,
\* details): status and created_at take the column defaults, 'detected' and
\* the clock; the description repeats the details and is left out, as are
\* resolved_at and resolve_note, which no handler reads
NewCase(user_id, anomaly_type, score, details) ==
    [user_id |-> user_id, anomaly_type |-> anomaly_type, score |-> score,
     details |-> details, status |-> "detected", created_at |-> now,
     resolved_by |-> NULL]

\* a duplicate query that names the first rule's type whatever the rule
OpenCasesWrongType(user_id, anomaly_type) ==
    { i \in 1..Len(anomalies) :
        /\ anomalies[i].user_id = user_id
        /\ anomalies[i].anomaly_type = "absent_streak"
        /\ anomalies[i].status \in {"detected", "reviewing"} }

\* a duplicate query that takes only 'detected' for open
OpenCasesDetectedOnly(user_id, anomaly_type) ==
    { i \in 1..Len(anomalies) :
        /\ anomalies[i].user_id = user_id
        /\ anomalies[i].anomaly_type = anomaly_type
        /\ anomalies[i].status = "detected" }

\* SELECT id FROM kwv_anomalies WHERE user_id=%s AND anomaly_type=...
\*   AND status IN ('detected','reviewing'), before the test of created_at
OpenCases(user_id, anomaly_type) ==
    { i \in 1..Len(anomalies) :
        /\ anomalies[i].user_id = user_id
        /\ anomalies[i].anomaly_type = anomaly_type
        /\ anomalies[i].status \in {"detected", "reviewing"} }

\* a duplicate query of rule 1 without its test of the date
CreatedAnyDay(t) == TRUE

\* AND DATE(created_at) = CURDATE()
CreatedToday(t) == DATE(t) = DATE(now)
\* AND created_at >= DATE_SUB(NOW(), INTERVAL 7 DAY)
CreatedIn7Days(t) == t >= DaysAgo(7)
\* AND created_at >= DATE_SUB(NOW(), INTERVAL 14 DAY)
CreatedIn14Days(t) == t >= DaysAgo(14)

\* the greatest element of a non-empty set of numbers
Max(S) == CHOOSE m \in S : \A x \in S : x <= m

\* a last check_in that is day 0 for a worker without one
LastCheckinOrEpoch(u) ==
    LET days == { DATE(attendance[i].check_time) :
                    i \in { j \in 1..Len(attendance) :
                              /\ attendance[j].user_id = u
                              /\ attendance[j].check_type = "check_in" } }
    IN  IF days = {} THEN 0 ELSE Max(days)

\* (SELECT MAX(DATE(check_time)) FROM kwv_attendance
\*   WHERE user_id=u.id AND check_type='check_in')
LastCheckin(u) ==
    LET days == { DATE(attendance[i].check_time) :
                    i \in { j \in 1..Len(attendance) :
                              /\ attendance[j].user_id = u
                              /\ attendance[j].check_type = "check_in" } }
    IN  IF days = {} THEN NULL ELSE Max(days)

\* rule 1 without the approval filter of its SELECT
AbsentFlaggedAnyApplicant(u) ==
    /\ kwv_users(u).user_type = "applicant"
    /\ LastCheckin(u) # NULL
    /\ DATE(now) - LastCheckin(u) >= ThresholdOr3(rules["absent_3days"])
    /\ ~\E i \in OpenCases(u, "absent_streak") :
          CreatedToday(anomalies[i].created_at)

\* rule 1: the workers the loop inserts a case for
AbsentFlagged(u) ==
    /\ kwv_users(u).user_type = "applicant"
    /\ kwv_users(u).is_active /\ kwv_users(u).is_approved
    /\ LastCheckin(u) # NULL
    /\ DATE(now) - LastCheckin(u) >= ThresholdOr3(rules["absent_3days"])
    /\ ~\E i \in OpenCases(u, "absent_streak") :
          CreatedToday(anomalies[i].created_at)

AbsentCaseOf(u) ==
    NewCase(u, "absent_streak", rules["absent_3days"].score,
            [days_absent |-> DATE(now) - LastCheckin(u),
             last_checkin |-> LastCheckin(u)])

\* rule 2's COUNT(*) without the 7-day bound of its WHERE
ViolationCountAllTime(u) ==
    Cardinality({ i \in 1..Len(attendance) :
                    /\ attendance[i].user_id = u
                    /\ attendance[i].is_valid = FALSE })

\* rule 2: COUNT(*) of the worker's invalid rows of the last 7 days
ViolationCount(u) ==
    Cardinality({ i \in 1..Len(attendance) :
                    /\ attendance[i].user_id = u
                    /\ attendance[i].is_valid = FALSE
                    /\ attendance[i].check_time >= DaysAgo(7) })

GpsFlagged(u) ==
    /\ ViolationCount(u) >= 2
    /\ ~\E i \in OpenCases(u, "gps_violation") :
          CreatedIn7Days(anomalies[i].created_at)

GpsCaseOf(u) ==
    NewCase(u, "gps_violation", rules["gps_violation"].score,
            [violation_count |-> ViolationCount(u)])

\* rule 3's COUNT(*) without the LEFT JOIN: every check_in row of the last
\* 14 days
NoCheckoutCountAllCheckins(u) ==
    Cardinality({ i \in 1..Len(attendance) :
                    /\ attendance[i].user_id = u
                    /\ attendance[i].check_type = "check_in"
                    /\ attendance[i].check_time >= DaysAgo(14) })

\* rule 3 with a join that pairs a check_in only with a later check_out at
\* the same workplace
NoCheckoutCountSameShift(u) ==
    Cardinality({ i \in 1..Len(attendance) :
                    /\ attendance[i].user_id = u
                    /\ attendance[i].check_type = "check_in"
                    /\ attendance[i].check_time >= DaysAgo(14)
                    /\ ~\E j \in 1..Len(attendance) :
                          /\ attendance[j].user_id = u
                          /\ attendance[j].check_type = "check_out"
                          /\ attendance[j].workplace_id
                               = attendance[i].workplace_id
                          /\ attendance[j].check_time
                               >= attendance[i].check_time
                          /\ DATE(attendance[j].check_time)
                               = DATE(attendance[i].check_time) })

\* rule 3: COUNT(*) of the worker's check_in rows of the last 14 days that
\* the LEFT JOIN pairs with no check_out row of the same date
NoCheckoutCount(u) ==
    Cardinality({ i \in 1..Len(attendance) :
                    /\ attendance[i].user_id = u
                    /\ attendance[i].check_type = "check_in"
                    /\ attendance[i].check_time >= DaysAgo(14)
                    /\ ~\E j \in 1..Len(attendance) :
                          /\ attendance[j].user_id = u
                          /\ attendance[j].check_type = "check_out"
                          /\ DATE(attendance[j].check_time)
                               = DATE(attendance[i].check_time) })

NoCheckoutFlagged(u) ==
    /\ NoCheckoutCount(u) >= ThresholdOr3(rules["no_checkout_3"])
    /\ ~\E i \in OpenCases(u, "no_checkout") :
          CreatedIn14Days(anomalies[i].created_at)

NoCheckoutCaseOf(u) ==
    NewCase(u, "no_checkout", rules["no_checkout_3"].score,
            [no_checkout_count |-> NoCheckoutCount(u)])

\* the rows each rule inserts, in the order of its loop; none when
\* rules.get(key) is None
AbsentCases ==
    IF "absent_3days" \in LoadedRules
    THEN LET hit == SelectSeq(UserOrder, AbsentFlagged)
         IN  [i \in 1..Len(hit) |-> AbsentCaseOf(hit[i])]
    ELSE <<>>

GpsCases ==
    IF "gps_violation" \in LoadedRules
    THEN LET hit == SelectSeq(UserOrder, GpsFlagged)
         IN  [i \in 1..Len(hit) |-> GpsCaseOf(hit[i])]
    ELSE <<>>

NoCheckoutCases ==
    IF "no_checkout_3" \in LoadedRules
    THEN LET hit == SelectSeq(UserOrder, NoCheckoutFlagged)
         IN  [i \in 1..Len(hit) |-> NoCheckoutCaseOf(hit[i])]
    ELSE <<>>

\* the rows a scan inserts.  Each duplicate query reads the table as it was
\* when the scan began: a scan asks once for each (worker, type), so the rows
\* it has inserted itself never answer a later query of the same scan.
ScanCases == AbsentCases \o GpsCases \o NoCheckoutCases

\* the recipients chosen by user_type instead of admin_level
AlertedAdminsByType ==
    SelectSeq(UserOrder, LAMBDA u : kwv_users(u).user_type = "admin")

\* SELECT id FROM kwv_users WHERE admin_level >= 5
AlertedAdmins ==
    SelectSeq(UserOrder, LAMBDA u : kwv_users(u).admin_level >= 5)

\* the notifications of a scan that found n cases
ScanNotifications(n) ==
    IF n > 0
    THEN [i \in 1..Len(AlertedAdmins) |->
             [user_id |-> AlertedAdmins[i], count |-> n]]
    ELSE <<>>

scan_anomalies(db, caller) ==
    /\ UNCHANGED <<now, workplaces, nextQr, oldQr, attendance, rules,
                   assignments, pending>>
    /\ IF require_admin(Payload(caller)) # 0
       THEN /\ last' = [op |-> "scan_anomalies", status |-> 403]
            /\ UNCHANGED <<anomalies, notifications>>
       ELSE IF ~db
       THEN /\ last' = [op |-> "scan_anomalies", status |-> 500]
            /\ UNCHANGED <<anomalies, notifications>>
       ELSE /\ Len(anomalies) + Len(ScanCases) <= MaxCases
            /\ anomalies' = anomalies \o ScanCases
            /\ notifications' =
                 notifications \o ScanNotifications(Len(ScanCases))
            /\ last' = [op |-> "scan_anomalies", status |-> 200,
                        detected_count |-> Len(ScanCases), time |-> now]

\* the rows the scan has inserted when it enters the block of rule key
CasesBefore(key) ==
    IF key = "absent_3days" THEN <<>>
    ELSE IF key = "gps_violation" THEN AbsentCases
    ELSE AbsentCases \o GpsCases

\* a scan stopped in a rule's block on a connection that commits each
\* statement: the rows of the earlier rules stay
scan_anomalies_rule_error_Autocommit(db, caller, key) ==
    /\ require_admin(Payload(caller)) = 0
    /\ db
    /\ key \in LoadedRules
    /\ Len(anomalies) + Len(CasesBefore(key)) <= MaxCases
    /\ anomalies' = anomalies \o CasesBefore(key)
    /\ last' = [op |-> "scan_anomalies", status |-> 500, failed |-> key]
    /\ UNCHANGED <<now, workplaces, nextQr, oldQr, attendance, rules,
                   notifications, assignments, pending>>

\* a statement of the block of rule key raises (a database error): the
\* exception leaves the try block before conn.commit(), `finally` closes the
\* connection, and the INSERTs of the open transaction are discarded; the
\* caller gets the server's 500
scan_anomalies_rule_error(db, caller, key) ==
    /\ require_admin(Payload(caller)) = 0
    /\ db
    /\ key \in LoadedRules
    /\ Len(anomalies) + Len(CasesBefore(key)) <= MaxCases
    /\ last' = [op |-> "scan_anomalies", status |-> 500, failed |-> key]
    /\ UNCHANGED <<now, workplaces, nextQr, oldQr, attendance, rules,
                   anomalies, notifications, assignments, pending>>

\* the k-th INSERT INTO kwv_notifications raises: the cases are committed
\* already, the loop has no try/except, so the exception leaves the handler
\* before the second conn.commit() and before the return; the notifications
\* inserted so far are discarded with the connection
scan_anomalies_notify_error(db, caller, k) ==
    /\ require_admin(Payload(caller)) = 0
    /\ db
    /\ Len(ScanCases) > 0
    /\ k \in 1..Len(AlertedAdmins)
    /\ Len(anomalies) + Len(ScanCases) <= MaxCases
    /\ anomalies' = anomalies \o ScanCases
    /\ last' = [op |-> "scan_anomalies", status |-> 500,
                failed |-> "notification"]
    /\ UNCHANGED <<now, workplaces, nextQr, oldQr, attendance, rules,
                   notifications, assignments, pending>>

\* new_status = body.get("status", "resolved")
NewStatus(body_status) ==
    IF body_status = "" THEN "resolved" ELSE body_status

\* the response of a resolve request and the table it leaves: the UPDATE
\* names the row by id and the handler does not look at cursor.rowcount
ResolveOutcome(db, caller, anomaly_id, body_status) ==
    IF require_admin(Payload(caller)) # 0
    THEN [status |-> 403, anomalies |-> anomalies]
    ELSE IF ~db
    THEN [status |-> 500, anomalies |-> anomalies]
    ELSE [status |-> 200,
          anomalies |->
            [i \in 1..Len(anomalies) |->
                IF i = anomaly_id
                THEN [anomalies[i] EXCEPT
                        !.status = NewStatus(body_status),
                        !.resolved_by = Payload(caller).sub]
                ELSE anomalies[i]]]

resolve_anomaly(db, caller, anomaly_id, body_status) ==
    LET out == ResolveOutcome(db, caller, anomaly_id, body_status) IN
    /\ anomalies' = out.anomalies
    /\ last' = [op |-> "resolve_anomaly", status |-> out.status]
    /\ UNCHANGED <<now, workplaces, nextQr, oldQr, attendance, rules,
                   notifications, assignments, pending>>

----------------------------------------------------------------------------
(* Requests served at the same time.  A handler reads, then writes, and     *)
(* holds no lock in between: attendance_check runs its duplicate query and  *)
(* then its INSERT; scan_anomalies runs its queries, inserts inside its     *)
(* transaction and commits at the end, so that what it inserts is seen by   *)
(* another connection only after the commit.  Each handler is split at that *)
(* point; a request that has read and not yet written waits in `pending`.   *)

\* pending without its i-th request
Without(i) ==
    [k \in 1..(Len(pending) - 1) |->
        IF k < i THEN pending[k] ELSE pending[k + 1]]

\* attendance_check up to and including its duplicate query
attendance_check_read(db, user_id, workplace_id, qr_code, check_type, lat, lon) ==
    LET out == AttOutcome(db, user_id, workplace_id, qr_code, check_type,
                          lat, lon)
    IN
    /\ IF out.status # 200
       THEN /\ last' = [op |-> "attendance_check", status |-> out.status,
                        workplace_id |-> workplace_id, qr_code |-> qr_code]
            /\ UNCHANGED pending
       ELSE /\ Len(pending) < MaxInflight
            /\ pending' = Append(pending,
                                 [op |-> "attendance_check",
                                  rows |-> <<out.row>>,
                                  echo |-> <<workplace_id, qr_code>>])
            /\ UNCHANGED last
    /\ UNCHANGED <<now, workplaces, nextQr, oldQr, attendance, rules,
                   anomalies, notifications, assignments>>

\* an INSERT that a unique key over the duplicate window would refuse
attendance_check_write_Guarded(i) ==
    /\ i \in 1..Len(pending)
    /\ pending[i].op = "attendance_check"
    /\ LET row == pending[i].rows[1]
           dup == DuplicateRows(row.user_id, row.workplace_id,
                                row.check_type)
       IN  /\ dup = {} => Len(attendance) < MaxLedger
           /\ attendance' = IF dup = {}
                            THEN Append(attendance,
                                        [row EXCEPT !.check_time = now])
                            ELSE attendance
           /\ last' = [op |-> "attendance_check",
                       status |-> IF dup = {} THEN 200 ELSE 429,
                       workplace_id |-> pending[i].echo[1],
                       qr_code |-> pending[i].echo[2]]
    /\ pending' = Without(i)
    /\ UNCHANGED <<now, workplaces, nextQr, oldQr, rules, anomalies,
                   notifications, assignments>>

\* attendance_check from its INSERT on: check_time is the clock of the
\* INSERT
attendance_check_write(i) ==
    /\ i \in 1..Len(pending)
    /\ pending[i].op = "attendance_check"
    /\ Len(attendance) < MaxLedger
    /\ attendance' = Append(attendance,
                            [pending[i].rows[1] EXCEPT !.check_time = now])
    /\ last' = [op |-> "attendance_check", status |-> 200,
                workplace_id |-> pending[i].echo[1],
                qr_code |-> pending[i].echo[2]]
    /\ pending' = Without(i)
    /\ UNCHANGED <<now, workplaces, nextQr, oldQr, rules, anomalies,
                   notifications, assignments>>

\* scan_anomalies up to its commit: the rows it has inserted in its
\* transaction
scan_anomalies_read(db, caller) ==
    /\ IF require_admin(Payload(caller)) # 0
       THEN /\ last' = [op |-> "scan_anomalies", status |-> 403]
            /\ UNCHANGED pending
       ELSE IF ~db
       THEN /\ last' = [op |-> "scan_anomalies", status |-> 500]
            /\ UNCHANGED pending
       ELSE /\ Len(pending) < MaxInflight
            /\ pending' = Append(pending,
                                 [op |-> "scan_anomalies",
                                  rows |-> ScanCases, echo |-> <<>>])
            /\ UNCHANGED last
    /\ UNCHANGED <<now, workplaces, nextQr, oldQr, attendance, rules,
                   anomalies, notifications, assignments>>

\* a commit that a unique key over the open cases would trim to the rows
\* the table has no open case for
scan_anomalies_commit_Dedup(i) ==
    /\ i \in 1..Len(pending)
    /\ pending[i].op = "scan_anomalies"
    /\ LET still == SelectSeq(pending[i].rows,
                              LAMBDA r :
                                OpenCases(r.user_id, r.anomaly_type) = {})
       IN  /\ Len(anomalies) + Len(still) <= MaxCases
           /\ anomalies' = anomalies \o still
           /\ notifications' =
                notifications \o ScanNotifications(Len(still))
           /\ last' = [op |-> "scan_anomalies", status |-> 200,
                       detected_count |-> Len(still), time |-> now]
    /\ pending' = Without(i)
    /\ UNCHANGED <<now, workplaces, nextQr, oldQr, attendance, rules,
                   assignments>>

\* scan_anomalies from its commit on: the commit, the notifications, the
\* response
scan_anomalies_commit(i) ==
    /\ i \in 1..Len(pending)
    /\ pending[i].op = "scan_anomalies"
    /\ Len(anomalies) + Len(pending[i].rows) <= MaxCases
    /\ anomalies' = anomalies \o pending[i].rows
    /\ notifications' =
         notifications \o ScanNotifications(Len(pending[i].rows))
    /\ last' = [op |-> "scan_anomalies", status |-> 200,
                detected_count |-> Len(pending[i].rows), time |-> now]
    /\ pending' = Without(i)
    /\ UNCHANGED <<now, workplaces, nextQr, oldQr, attendance, rules,
                   assignments>>

----------------------------------------------------------------------------
(* Time *)

Tick(d, limit) ==
    /\ now + d <= limit
    /\ now' = now + d
    /\ UNCHANGED <<workplaces, nextQr, oldQr, attendance, rules, anomalies,
                   notifications, assignments, pending, last>>

----------------------------------------------------------------------------
(* Specifications *)

\* the tables and the clock after installation, kwv_anomaly_rules excepted
InitTables ==
    /\ now = 0
    /\ workplaces =
         [w \in WpIds |->
            IF w = 1
            THEN [latitude |-> SiteLat, longitude |-> SiteLon,
                  geofence_radius |-> 200, qr_code |-> 1, is_active |-> TRUE]
            ELSE [latitude |-> NULL, longitude |-> NULL,
                  geofence_radius |-> NULL, qr_code |-> 2, is_active |-> TRUE]]
    /\ nextQr = FirstFreshQr
    /\ oldQr = {}
    /\ attendance = <<>>
    /\ anomalies = <<>>
    /\ notifications = <<>>
    /\ assignments = <<>>
    /\ pending = <<>>
    /\ last = [op |-> "none", status |-> 0]

Init == InitTables /\ rules = RuleTable

\* the tokens issued so far, and no token
QrInputs == {NULL} \cup (1..(nextQr - 1))

\* (worker, workplace_id, check_type) of the submissions of the duplicate
\* guard's specification: one triple and its three one-component variations
DupKeys ==
    { <<1, 1, "check_in">>, <<2, 1, "check_in">>, <<1, 2, "check_in">>,
      <<1, 1, "check_out">> }

\* the GPS fixes of those submissions: none, and 3500 microdegrees off the
\* site
DupGps == { <<NULL, NULL>>, <<SiteLat + 3500, SiteLon>> }

\* Duplicate guard: submissions by workplace id, without a GPS fix and, for
\* worker 1 at workplace 1, with one 3500 microdegrees off the site; one by
\* an unknown id, one by nothing, one with the database down; manual
\* entries, accepted and refused; the clock, which jumps to the last minute of the window and then
\* runs by the minute
NextDup ==
    \/ \E k \in DupKeys :
          attendance_check(TRUE, k[1], k[2], NULL, k[3], NULL, NULL)
    \/ \E g \in DupGps \ {<<NULL, NULL>>} :
          attendance_check(TRUE, 1, 1, NULL, "check_in", g[1], g[2])
    \/ \E x \in {<<FALSE, 1>>, <<TRUE, NULL>>, <<TRUE, 3>>} :
          attendance_check(x[1], 1, x[2], NULL, "check_in", NULL, NULL)
    \/ admin_manual_check(TRUE, 4, 1, 1, "check_in")
    \/ \E x \in {<<FALSE, 4, 1>>, <<TRUE, 3, 1>>, <<TRUE, 4, NULL>>} :
          admin_manual_check(x[1], x[2], x[3], 1, "check_in")
    \/ Tick(IF now = 0 THEN DUPLICATE_MINUTES - 1 ELSE 1, MaxMinutes)

Spec == Init /\ [][NextDup]_vars

\* update_workplace bodies that move the geofence
GeoBodies ==
    { [geofence_radius |-> 100], [geofence_radius |-> NULL],
      [latitude |-> SiteLat, longitude |-> SiteLon],
      [latitude |-> NULL, longitude |-> NULL] }

\* Geofence: worker 1 checks in at workplace 1 from every point of GpsInputs
\* while administrators change its radius and coordinates, and checks out
\* there and checks in at workplace 2, which has no registered coordinates,
\* without a GPS fix and from 3500 microdegrees off the site
NextGeo ==
    \/ \E g \in GpsInputs :
          attendance_check(TRUE, 1, 1, NULL, "check_in", g[1], g[2])
    \/ \E g \in DupGps :
          attendance_check(TRUE, 1, 1, NULL, "check_out", g[1], g[2])
    \/ \E g \in DupGps :
          attendance_check(TRUE, 1, 2, NULL, "check_in", g[1], g[2])
    \/ \E body \in GeoBodies : update_workplace(TRUE, 4, 1, body)
    \/ \E x \in {<<FALSE, 4, 1>>, <<TRUE, 3, 1>>, <<TRUE, 4, 3>>} :
          update_workplace(x[1], x[2], x[3], [geofence_radius |-> 100])
    \/ update_workplace(TRUE, 4, 1, [name |-> 0])

SpecGeo == Init /\ [][NextGeo]_vars

\* QR resolution: worker 1 submits a token, with and without a workplace id,
\* while administrators regenerate tokens and switch workplaces off and on
NextQr ==
    \/ \E w \in {NULL, 1}, q \in QrInputs, t \in CheckTypes :
          attendance_check(TRUE, 1, w, q, t, NULL, NULL)
    \/ \E db \in BOOLEAN, c \in Admins, w \in WpIds \cup {3} :
          regenerate_qr(db, c, w)
    \/ \E w \in WpIds, b \in BOOLEAN :
          update_workplace(TRUE, 4, w, [is_active |-> b])

SpecQr == Init /\ [][NextQr]_vars

\* the instants the clock of the scan specification visits after 0, in half
\* days: 14 d and 14 d 12 h
ScanStops == <<28, 29>>

HalfDay == MinutesPerDay \div 2

\* the status of a resolve request's body; "" is a body without one
StatusInputs == {"", "reviewing", "detected"}

\* Anomaly scan: worker 1 checks in at workplace 1 from 3500 microdegrees off
\* the site and checks out with no GPS fix; administrators scan and resolve;
\* a worker tries both, and both are tried with the database down; the clock
\* visits ScanStops
NextScan ==
    \/ attendance_check(TRUE, 1, 1, NULL, "check_in", SiteLat + 3500, SiteLon)
    \/ attendance_check(TRUE, 1, 1, NULL, "check_out", NULL, NULL)
    \/ \E x \in {<<TRUE, 4>>, <<FALSE, 4>>, <<TRUE, 1>>} :
          scan_anomalies(x[1], x[2])
    \/ \E i \in 1..MaxCases, st \in StatusInputs :
          resolve_anomaly(TRUE, 4, i, st)
    \/ resolve_anomaly(TRUE, 4, 1, "closed")
    \/ \E x \in {<<FALSE, 4>>, <<TRUE, 1>>} :
          resolve_anomaly(x[1], x[2], 1, "")
    \/ \E k \in 1..Len(ScanStops) :
          /\ ScanStops[k] * HalfDay > now
          /\ Tick(ScanStops[k] * HalfDay - now,
                  ScanStops[Len(ScanStops)] * HalfDay)

SpecScan == Init /\ [][NextScan]_vars

\* the rule tables of the rules specification: one rule is on; absent_3days
\* has no threshold of its own, no_checkout_3 is tuned to 1 or to 2
RuleInputs ==
    { [k \in DOMAIN RuleTable |->
          [RuleTable[k] EXCEPT
              !.is_active = (k = on[1]),
              !.threshold = IF k = "no_checkout_3" THEN on[2] ELSE @]] :
      on \in ({"absent_3days", "gps_violation"} \X {2})
                \cup ({"no_checkout_3"} \X {1, 2}) }

InitRules == InitTables /\ rules \in RuleInputs

\* the instants the clock of the rules specification visits after 0, in
\* days
RuleStops == <<2, 3, 15>>

\* Detection rules: worker 1 and the unapproved applicant 5 check in at
\* workplace 1 from 3500 microdegrees off the site, worker 1 checks out;
\* worker 2 never checks in; an administrator scans and resolves the first
\* case; the clock visits RuleStops
NextRules ==
    \/ \E u \in {1} \cup Unapproved :
          attendance_check(TRUE, u, 1, NULL, "check_in", SiteLat + 3500, SiteLon)
    \/ attendance_check(TRUE, 1, 1, NULL, "check_out", NULL, NULL)
    \/ scan_anomalies(TRUE, 4)
    \/ resolve_anomaly(TRUE, 4, 1, "")
    \/ \E k \in 1..Len(RuleStops) :
          /\ RuleStops[k] * MinutesPerDay > now
          /\ Tick(RuleStops[k] * MinutesPerDay - now,
                  RuleStops[Len(RuleStops)] * MinutesPerDay)

SpecRules == InitRules /\ [][NextRules]_vars

\* Assignments: administrators assign workers 1 and 2 to workplaces 1 and 2
\* and to a workplace of no row, and remove assignments by id; a level-1
\* administrator tries both, and both are tried with the database down and
\* assign_worker without a user_id
NextAssign ==
    \/ \E u \in Workers, w \in WpIds : assign_worker(TRUE, 4, w, u)
    \/ \E x \in {<<FALSE, 4, 1, 1>>, <<TRUE, 3, 1, 1>>, <<TRUE, 4, 3, 1>>,
                  <<TRUE, 4, 1, NULL>>} :
          assign_worker(x[1], x[2], x[3], x[4])
    \/ \E i \in 1..(MaxAssign + 1) : remove_assignment(TRUE, 4, i)
    \/ \E x \in {<<FALSE, 4>>, <<TRUE, 3>>} : remove_assignment(x[1], x[2], 1)

SpecAssign == Init /\ [][NextAssign]_vars

\* update_workplace bodies of the ledger specification: a smaller radius,
\* and no coordinates
LedgerBodies ==
    { [geofence_radius |-> 100], [latitude |-> NULL, longitude |-> NULL] }

\* Ledger: worker 1 checks in at workplace 1 from 1500 microdegrees off the
\* site and an administrator enters a check_out for the worker, while
\* administrators change the workplace's radius and coordinates, regenerate
\* its token, assign the worker and remove the assignment, and scan; the
\* clock moves once, to the end of the duplicate window
NextLedger ==
    \/ attendance_check(TRUE, 1, 1, NULL, "check_in", SiteLat + 1500, SiteLon)
    \/ admin_manual_check(TRUE, 4, 1, 1, "check_out")
    \/ \E body \in LedgerBodies : update_workplace(TRUE, 4, 1, body)
    \/ regenerate_qr(TRUE, 4, 1)
    \/ assign_worker(TRUE, 4, 1, 1)
    \/ remove_assignment(TRUE, 4, 1)
    \/ scan_anomalies(TRUE, 4)
    \/ Tick(DUPLICATE_MINUTES, DUPLICATE_MINUTES)

SpecLedger == Init /\ [][NextLedger]_vars

\* Concurrent requests: worker 1 submits check_in at workplace 1 and
\* administrator 4 scans, up to MaxInflight requests being between their
\* read and their write at one time; a worker asks for a scan; the clock
\* moves once, by less than the duplicate window
NextRace ==
    \/ attendance_check_read(TRUE, 1, 1, NULL, "check_in", NULL, NULL)
    \/ \E i \in 1..MaxInflight : attendance_check_write(i)
    \/ \E c \in {4, 1} : scan_anomalies_read(TRUE, c)
    \/ \E i \in 1..MaxInflight : scan_anomalies_commit(i)
    \/ Tick(DUPLICATE_MINUTES - 1, DUPLICATE_MINUTES - 1)

SpecRace == Init /\ [][NextRace]_vars

\* the (worker, workplace) pairs the summary specification assigns
SummaryPairs == { <<1, 1>>, <<2, 1>>, <<1, 2>> }

\* Daily summary: workers 1 and 2 check in at workplace 1, administrators
\* assign the pairs of SummaryPairs and remove the first assignment, and ask
\* for today's summary of all workplaces and of workplace 1; a worker asks
\* too, and it is asked with the database down
NextSummary ==
    \/ \E u \in Workers :
          attendance_check(TRUE, u, 1, NULL, "check_in", NULL, NULL)
    \/ \E x \in SummaryPairs : assign_worker(TRUE, 4, x[2], x[1])
    \/ remove_assignment(TRUE, 4, 1)
    \/ \E w \in {NULL, 1} : attendance_summary(TRUE, 4, NULL, w)
    \/ \E x \in {<<FALSE, 4>>, <<TRUE, 1>>} :
          attendance_summary(x[1], x[2], NULL, NULL)

SpecSummary == Init /\ [][NextSummary]_vars

\* the minutes the clock visits in the fault specification
FaultStops == <<5, 3 * MinutesPerDay, 3 * MinutesPerDay + 5>>

\* Faults inside a scan: worker 1 checks in far from the site, the clock
\* visits FaultStops, an administrator scans; a
\* scan may stop at a database error in the block of any rule, or at the
\* INSERT of any of its notifications
NextFault ==
    \/ attendance_check(TRUE, 1, 1, NULL, "check_in", SiteLat + 3500, SiteLon)
    \/ scan_anomalies(TRUE, 4)
    \/ \E key \in DOMAIN RuleTable : scan_anomalies_rule_error(TRUE, 4, key)
    \/ \E k \in 1..Len(UserOrder) : scan_anomalies_notify_error(TRUE, 4, k)
    \/ \E k \in 1..Len(FaultStops) :
          /\ FaultStops[k] > now
          /\ Tick(FaultStops[k] - now, FaultStops[Len(FaultStops)])

SpecFault == Init /\ [][NextFault]_vars

\* the statuses the open-case specification writes; "" is a body without one
OpenInputs == {"", "reviewing", "closed"}

\* Open cases: worker 1 checks in far from the site, an administrator scans
\* and moves any case to resolved, reviewing or closed, and the clock goes
\* to the fourth day
NextOpen ==
    \/ attendance_check(TRUE, 1, 1, NULL, "check_in", SiteLat + 3500, SiteLon)
    \/ scan_anomalies(TRUE, 4)
    \/ \E i \in 1..MaxCases, st \in OpenInputs :
          resolve_anomaly(TRUE, 4, i, st)
    \/ Tick(3 * MinutesPerDay, 3 * MinutesPerDay)

SpecOpen == Init /\ [][NextOpen]_vars

\* submitted fixes with a coordinate 0, and one 3500 microdegrees off the
\* site
ZeroGps ==
    { <<0, SiteLon>>, <<SiteLat + 3500, 0>>, <<SiteLat + 3500, SiteLon>> }

\* bodies that put a workplace on the equator or on the prime meridian, and
\* back at the site
ZeroBodies ==
    { [latitude |-> 0], [longitude |-> 0],
      [latitude |-> SiteLat, longitude |-> SiteLon] }

\* Coordinates 0: worker 1 checks in and out at workplace 1 with the fixes
\* of ZeroGps while an administrator moves the workplace by ZeroBodies; the
\* clock moves once, to the end of the duplicate window
NextZero ==
    \/ \E g \in ZeroGps, t \in CheckTypes :
          attendance_check(TRUE, 1, 1, NULL, t, g[1], g[2])
    \/ \E body \in ZeroBodies : update_workplace(TRUE, 4, 1, body)
    \/ Tick(DUPLICATE_MINUTES, DUPLICATE_MINUTES)

SpecZero == Init /\ [][NextZero]_vars

\* the minutes the clock visits in the shift specification
ShiftStops == <<60, MinutesPerDay>>

\* Shifts: worker 1 checks in at workplace 1 and checks out at either
\* workplace, before or after, an administrator scans, and the clock visits
\* ShiftStops
NextShift ==
    \/ attendance_check(TRUE, 1, 1, NULL, "check_in", NULL, NULL)
    \/ \E w \in WpIds :
          attendance_check(TRUE, 1, w, NULL, "check_out", NULL, NULL)
    \/ scan_anomalies(TRUE, 4)
    \/ \E k \in 1..Len(ShiftStops) :
          /\ ShiftStops[k] > now
          /\ Tick(ShiftStops[k] - now, ShiftStops[Len(ShiftStops)])

SpecShift == Init /\ [][NextShift]_vars

\* the rule table with the absent_3days row alone
InitAbsent == InitTables /\ rules = [k \in {"absent_3days"} |-> RuleTable[k]]

\* the days the clock visits in the absence specification
AbsentStops == <<3, 15>>

\* Absence: worker 1 and the unapproved applicant 5 check in at workplace 1,
\* worker 2 never does; an administrator scans and resolves the first case;
\* the clock visits AbsentStops
NextAbsent ==
    \/ \E u \in {1} \cup Unapproved :
          attendance_check(TRUE, u, 1, NULL, "check_in", NULL, NULL)
    \/ scan_anomalies(TRUE, 4)
    \/ resolve_anomaly(TRUE, 4, 1, "")
    \/ \E k \in 1..Len(AbsentStops) :
          /\ AbsentStops[k] * MinutesPerDay > now
          /\ Tick(AbsentStops[k] * MinutesPerDay - now,
                  AbsentStops[Len(AbsentStops)] * MinutesPerDay)

SpecAbsent == InitAbsent /\ [][NextAbsent]_vars

\* the rule tables of the skipping specification: each rule is on, switched
\* off, or has no row
SkipInputs ==
    { [k \in { x \in DOMAIN RuleTable : how[x] # "gone" } |->
          [RuleTable[k] EXCEPT !.is_active = (how[k] = "on")]] :
      how \in [DOMAIN RuleTable -> {"on", "off", "gone"}] }

InitSkip == InitTables /\ rules \in SkipInputs

\* Skipped rules: worker 1 checks in at workplace 1 from 3500 microdegrees
\* off the site, an administrator scans, and the clock moves once, by 3 days
NextSkip ==
    \/ attendance_check(TRUE, 1, 1, NULL, "check_in", SiteLat + 3500, SiteLon)
    \/ scan_anomalies(TRUE, 4)
    \/ Tick(3 * MinutesPerDay, 3 * MinutesPerDay)

SpecSkip == InitSkip /\ [][NextSkip]_vars

----------------------------------------------------------------------------
(* Properties of attendance_check *)

\* the ledger rows of one (worker, workplace, check_type)
MatchingRows(u, w, t) ==
    { i \in 1..Len(attendance) :
        /\ attendance[i].user_id = u
        /\ attendance[i].workplace_id = w
        /\ attendance[i].check_type = t }

\* the check_time of the newest of them
LastRowTime(u, w, t) ==
    CHOOSE m \in { attendance[i].check_time : i \in MatchingRows(u, w, t) } :
        \A i \in MatchingRows(u, w, t) : attendance[i].check_time <= m

\* worker u submits to workplace w, naming it by id or by its current token
SubmitTo(u, w, t, g, byQr) ==
    AttOutcome(TRUE, u, IF byQr THEN NULL ELSE w,
               IF byQr THEN workplaces[w].qr_code ELSE NULL, t, g[1], g[2])

\* the ways a submission can name workplace w
Ways(w) == IF workplaces[w].is_active THEN BOOLEAN ELSE {FALSE}

\* C1: once the ledger holds a record of (worker, workplace, check_type), a
\* submission of the same triple is answered 429 while the newest such
\* record is less than 5 minutes old and is accepted once it is more than
\* 5 minutes old.
C1_DuplicateWindow ==
    \A u \in Workers, w \in WpIds, t \in CheckTypes, g \in DupGps :
      \A byQr \in Ways(w) :
        MatchingRows(u, w, t) # {} =>
          LET age == now - LastRowTime(u, w, t)
              out == SubmitTo(u, w, t, g, byQr)
          IN  /\ age < 5 => out.status = 429
              /\ age > 5 => out.status = 200

\* a submission was accepted more than 5 minutes after an earlier record of
\* its triple, and the one after it has just been answered 429
C1_Witness ==
    /\ last.op = "attendance_check" /\ last.status = 429
    /\ \E i, j \in 1..Len(attendance) :
         /\ i < j
         /\ j \in MatchingRows(attendance[i].user_id,
                               attendance[i].workplace_id,
                               attendance[i].check_type)
         /\ attendance[j].check_method = "gps"
         /\ attendance[j].check_time - attendance[i].check_time > 5
         /\ now - attendance[j].check_time < 5

\* C2: a submission whose workplace resolves is answered 429 exactly when the
\* ledger holds a record of the same worker, workplace and check_type that is
\* less than 5 minutes old, whatever that record's validity and method; in
\* every other case it is accepted.
C2_DuplicateKey ==
    \A u \in Workers, w \in WpIds, t \in CheckTypes, g \in DupGps :
      \A byQr \in Ways(w) :
        LET out == SubmitTo(u, w, t, g, byQr)
            recent == { i \in MatchingRows(u, w, t) :
                          now - attendance[i].check_time < 5 }
        IN  /\ out.status \in {200, 429}
            /\ out.status = 429 <=> recent # {}

\* a check_out was accepted in the minute of the same worker's check_in at
\* the same workplace
C2_Witness ==
    /\ last.op = "attendance_check" /\ last.status = 200
    /\ \E i, j \in 1..Len(attendance) :
         /\ i < j
         /\ attendance[i].user_id = attendance[j].user_id
         /\ attendance[i].workplace_id = attendance[j].workplace_id
         /\ attendance[i].check_time = attendance[j].check_time
         /\ attendance[i].check_type = "check_in"
         /\ attendance[j].check_type = "check_out"
         /\ attendance[j].check_method = "gps"

\* the radius a workplace row stands for: 200 when the column is unset
RadiusOf(w) ==
    IF workplaces[w].geofence_radius = NULL
    THEN 200
    ELSE workplaces[w].geofence_radius

\* C3: when an accepted submission and its workplace both have coordinates
\* and the distance between them exceeds the workplace's radius (200 when
\* unset), the row written has is_valid = FALSE, that distance, and a reason
\* that embeds that distance and that radius; and an invalid row of the
\* ledger always carries such a reason.
C3_OutsideGeofence ==
    /\ \A u \in Workers, w \in WpIds, t \in CheckTypes, g \in GpsInputs :
         LET out == SubmitTo(u, w, t, g, FALSE)
             wp == workplaces[w]
             d == IntMetres(haversine(g[1], g[2], wp.latitude, wp.longitude))
         IN  ( /\ out.status = 200
               /\ DistanceChecked(g[1], g[2], wp.latitude, wp.longitude)
               /\ d > RadiusOf(w) )
             => /\ out.row.is_valid = FALSE
                /\ out.row.distance = d
                /\ out.row.invalid_reason = <<d, RadiusOf(w)>>
    /\ \A i \in 1..Len(attendance) :
         attendance[i].is_valid = FALSE =>
            /\ attendance[i].invalid_reason # NO_TEXT
            /\ attendance[i].invalid_reason[1] = attendance[i].distance
            /\ attendance[i].distance > attendance[i].invalid_reason[2]

\* a submission 389 m from a workplace whose radius is unset was recorded as
\* invalid against the default radius
C3_Witness ==
    \E i \in 1..Len(attendance) :
      /\ attendance[i].is_valid = FALSE
      /\ attendance[i].invalid_reason = <<389, 200>>
      /\ workplaces[attendance[i].workplace_id].geofence_radius = NULL

\* C4: an accepted submission without latitude and longitude is recorded
\* with is_valid = TRUE, distance NULL and invalid_reason NULL, wherever the
\* workplace is and whatever its radius.
C4_NoGpsIsValid ==
    /\ \A u \in Workers, w \in WpIds, t \in CheckTypes, byQr \in BOOLEAN :
         LET out == SubmitTo(u, w, t, <<NULL, NULL>>, byQr)
         IN  out.status = 200 =>
               /\ out.row.is_valid = TRUE
               /\ out.row.distance = NULL
               /\ out.row.invalid_reason = NO_TEXT
    /\ \A i \in 1..Len(attendance) :
         (attendance[i].latitude = NULL /\ attendance[i].longitude = NULL) =>
            /\ attendance[i].is_valid = TRUE
            /\ attendance[i].distance = NULL
            /\ attendance[i].invalid_reason = NO_TEXT

\* a submission without coordinates was recorded as valid at a workplace
\* that has coordinates and a radius of 100
C4_Witness ==
    \E i \in 1..Len(attendance) :
      /\ attendance[i].latitude = NULL /\ attendance[i].longitude = NULL
      /\ attendance[i].check_method = "gps"
      /\ attendance[i].is_valid = TRUE
      /\ workplaces[attendance[i].workplace_id].latitude = SiteLat
      /\ workplaces[attendance[i].workplace_id].geofence_radius = 100

\* C5: a submission that carries a QR code and no workplace_id is answered
\* 404 exactly when no active workplace has that code as its current token;
\* otherwise it resolves to the active workplace that has it.  A token that
\* regenerate_qr has replaced is answered 404, and the current token of an
\* active workplace resolves to that workplace.
C5_QrResolution ==
    /\ \A u \in Workers, q \in QrInputs \ {NULL}, t \in CheckTypes :
         LET out == AttOutcome(TRUE, u, NULL, q, t, NULL, NULL)
             holders == { w \in WpIds : workplaces[w].qr_code = q
                                         /\ workplaces[w].is_active }
         IN  /\ out.status = 404 <=> holders = {}
             /\ out.status \in {200, 404, 429}
             /\ out.status = 200 => out.row.workplace_id \in holders
    /\ \A u \in Workers, q \in oldQr, t \in CheckTypes :
         AttOutcome(TRUE, u, NULL, q, t, NULL, NULL).status = 404
    /\ \A u \in Workers, w \in WpIds, t \in CheckTypes :
         workplaces[w].is_active =>
           LET out == AttOutcome(TRUE, u, NULL, workplaces[w].qr_code, t,
                                 NULL, NULL)
           IN  /\ out.status \in {200, 429}
               /\ out.status = 200 => out.row.workplace_id = w

\* a check-in with a replaced token and no workplace_id has just been
\* answered 404 while the workplace that had the token is active
C5_Witness ==
    /\ last.op = "attendance_check" /\ last.status = 404
    /\ last.workplace_id = NULL
    /\ last.qr_code \in oldQr
    /\ \A w \in WpIds : workplaces[w].is_active

\* the step is a call of attendance_check that was accepted
Accepted ==
    /\ last'.op = "attendance_check" /\ last'.status = 200
    /\ Len(attendance') = Len(attendance) + 1

\* the row an accepted call has written names a workplace that is active and
\* has the submitted code as its current token
WrittenUnderCurrentToken ==
    LET row == attendance'[Len(attendance')]
    IN  /\ workplaces[row.workplace_id].qr_code = last'.qr_code
        /\ workplaces[row.workplace_id].is_active

\* C6 as stated: every row written from a submission that carried a QR code
\* was written while that code was the current token of the active workplace
\* the row names, with or without a workplace_id in the submission.
C6_AsStated ==
    [][(Accepted /\ Truthy(last'.qr_code)) => WrittenUnderCurrentToken]_vars

\* C6, amended: every row written from a submission that carried a QR code
\* and no workplace_id was written while that code was the current token of
\* the active workplace the row names.
C6_QrOnlyRows ==
    [][(Accepted /\ Truthy(last'.qr_code) /\ ~Truthy(last'.workplace_id))
          => WrittenUnderCurrentToken]_vars

\* after a regeneration, a submission by token alone has just been accepted
C6_Witness ==
    /\ last.op = "attendance_check" /\ last.status = 200
    /\ last.workplace_id = NULL /\ Truthy(last.qr_code)
    /\ oldQr # {}
    /\ attendance[Len(attendance)].check_method = "qr"

\* C7: a call of attendance_check that is accepted appends exactly one row to
\* the ledger and changes no other row; a call answered with an error (400,
\* 404, 429, 503) leaves the ledger as it was.
C7_OneInsertOrNone ==
    [][(last'.op = "attendance_check" /\ now' = now) =>
          \/ /\ last'.status = 200
             /\ Len(attendance') = Len(attendance) + 1
             /\ SubSeq(attendance', 1, Len(attendance)) = attendance
          \/ /\ last'.status \in {400, 404, 429, 503}
             /\ attendance' = attendance]_vars

\* a duplicate has just been answered 429 with the ledger holding the one row
\* of the accepted call
C7_Witness ==
    /\ last.op = "attendance_check" /\ last.status = 429
    /\ Len(attendance) = 1
    /\ attendance[1].check_method = "gps"

----------------------------------------------------------------------------
(* Properties of scan_anomalies and resolve_anomaly *)

OpenStatuses == {"detected", "reviewing"}
TerminalStatuses == {"resolved", "closed"}

\* the created_at values a rule's duplicate query accepts at instant t
InDedupWindow(anomaly_type, created_at, t) ==
    IF anomaly_type = "absent_streak" THEN DATE(created_at) = DATE(t)
    ELSE IF anomaly_type = "gps_violation"
    THEN created_at >= t - 7 * MinutesPerDay
    ELSE created_at >= t - 14 * MinutesPerDay

\* two instants of one calendar day between which no case leaves the window
\* of its rule
SameDedupWindow(t1, t2) ==
    /\ DATE(t1) = DATE(t2)
    /\ \A i \in 1..Len(anomalies) :
          InDedupWindow(anomalies[i].anomaly_type, anomalies[i].created_at, t1)
            <=> InDedupWindow(anomalies[i].anomaly_type,
                              anomalies[i].created_at, t2)

\* a step that is an accepted scan following an accepted scan, with no other
\* request between the two
ScanAfterScan ==
    /\ last.op = "scan_anomalies" /\ last.status = 200
    /\ last'.op = "scan_anomalies" /\ last'.status = 200
    /\ now' = now

\* C8: when scan_anomalies runs twice with no other request between the runs,
\* and both runs fall in the same dedup window, the second run reports a
\* detected_count of 0 and writes no case.
C8_SecondScanFindsNothing ==
    [][ScanAfterScan /\ SameDedupWindow(last.time, now)
          => /\ last'.detected_count = 0
             /\ anomalies' = anomalies
             /\ notifications' = notifications]_vars

\* a scan has just reported 0 at the instant an earlier scan opened a case
C8_Witness ==
    /\ last.op = "scan_anomalies" /\ last.status = 200
    /\ last.detected_count = 0 /\ last.time = now
    /\ \E i \in 1..Len(anomalies) :
          /\ anomalies[i].created_at = now
          /\ anomalies[i].status = "detected"
          /\ anomalies[i].resolved_by = NULL

\* the open cases of a worker and a type that lie in the type's window
OpenInWindow(u, anomaly_type) ==
    { i \in 1..Len(anomalies) :
        /\ anomalies[i].user_id = u
        /\ anomalies[i].anomaly_type = anomaly_type
        /\ anomalies[i].status \in OpenStatuses
        /\ InDedupWindow(anomaly_type, anomalies[i].created_at, now) }

\* C9: under any sequence of attendance, scan and resolve calls, a worker has
\* at most one open case of a type inside that type's dedup window.
C9_OneOpenCasePerWindow ==
    \A u \in Workers :
        \A anomaly_type \in {"absent_streak", "gps_violation", "no_checkout"} :
            Cardinality(OpenInWindow(u, anomaly_type)) <= 1

\* the moves of a case's status along detected -> reviewing -> resolved|closed
StatusMoves(from, to) ==
    \/ to = from
    \/ from = "detected" /\ to \in {"reviewing"} \cup TerminalStatuses
    \/ from = "reviewing" /\ to \in TerminalStatuses

\* C10: a case's status moves only along detected -> reviewing ->
\* resolved|closed; no request, a resolve with any status included, moves a
\* resolved or closed case back to detected or reviewing.
C10_StatusMovesForward ==
    [][\A i \in 1..Len(anomalies) :
          StatusMoves(anomalies[i].status, anomalies'[i].status)]_vars

----------------------------------------------------------------------------
(* Properties of the detection rules *)

\* the ids of kwv_users
Users == { UserOrder[k] : k \in 1..Len(UserOrder) }

\* a step in which a scan is answered 200
ScanStep ==
    /\ last'.op = "scan_anomalies" /\ last'.status = 200
    /\ now' = now

\* the ids of the rows of one worker and type that the step inserts
Inserted(u, anomaly_type) ==
    { i \in (Len(anomalies) + 1)..Len(anomalies') :
        /\ anomalies'[i].user_id = u
        /\ anomalies'[i].anomaly_type = anomaly_type }

\* the worker has a case of the type that is open
HasOpenCase(u, anomaly_type, since) ==
    \E i \in 1..Len(anomalies) :
       /\ anomalies[i].user_id = u
       /\ anomalies[i].anomaly_type = anomaly_type
       /\ anomalies[i].status \in OpenStatuses
       /\ anomalies[i].created_at >= since

\* the first minute of today
Midnight == DATE(now) * MinutesPerDay

\* the dates of the worker's check_in records
CheckinDates(u) ==
    { DATE(attendance[i].check_time) :
        i \in { j \in 1..Len(attendance) :
                  /\ attendance[j].user_id = u
                  /\ attendance[j].check_type = "check_in" } }

\* the threshold a rule works with: its own, 3 when it has none
ThresholdOf(key) ==
    IF rules[key].threshold = NULL THEN 3 ELSE rules[key].threshold

\* C11: when the absent_3days rule is active, a scan creates exactly one
\* absent_streak case, with days_absent = today - the date of the last
\* check_in, for every approved and active applicant whose last check_in is
\* at least the threshold (3 by default) days before today and who has no
\* open absent_streak case created today, and none for anybody else.
C11_AbsentStreak ==
    [][ScanStep /\ rules["absent_3days"].is_active =>
         \A u \in Users :
            LET made == Inserted(u, "absent_streak")
                days == CheckinDates(u)
                due ==
                  /\ kwv_users(u).user_type = "applicant"
                  /\ kwv_users(u).is_active /\ kwv_users(u).is_approved
                  /\ days # {}
                  /\ DATE(now) - Max(days) >= ThresholdOf("absent_3days")
                  /\ ~HasOpenCase(u, "absent_streak", Midnight)
            IN  IF due
                THEN /\ Cardinality(made) = 1
                     /\ \A i \in made :
                          /\ anomalies'[i].details.days_absent
                               = DATE(now) - Max(days)
                          /\ anomalies'[i].status = "detected"
                ELSE made = {}]_vars

\* a scan has just found nothing new on a day on which worker 1 already has
\* an open absent_streak case of 3 days, while applicant 5, whose last
\* check_in is as old but who is not approved, and worker 2, who never
\* checked in, have none
C11_Witness ==
    /\ last.op = "scan_anomalies" /\ last.status = 200
    /\ last.detected_count = 0 /\ last.time = now
    /\ rules["absent_3days"].is_active
    /\ \E i \in 1..Len(anomalies) :
          /\ anomalies[i].user_id = 1
          /\ anomalies[i].anomaly_type = "absent_streak"
          /\ anomalies[i].status = "detected"
          /\ anomalies[i].created_at = now
          /\ anomalies[i].details.days_absent = 3
    /\ CheckinDates(5) # {} /\ DATE(now) - Max(CheckinDates(5)) >= 3
    /\ \A i \in 1..Len(anomalies) : anomalies[i].user_id = 1

\* the worker's invalid records of the last 7 days
InvalidIn7Days(u) ==
    { i \in 1..Len(attendance) :
        /\ attendance[i].user_id = u
        /\ ~attendance[i].is_valid
        /\ now - attendance[i].check_time <= 7 * MinutesPerDay }

\* C12: when the gps_violation rule is active, a scan creates one
\* gps_violation case, with violation_count = the number of the worker's
\* invalid attendance records of the last 7 days, for exactly the workers
\* for whom that number is at least 2 and who have no open gps_violation
\* case created in the last 7 days.
C12_GpsViolation ==
    [][ScanStep /\ rules["gps_violation"].is_active =>
         \A u \in Users :
            LET made == Inserted(u, "gps_violation")
                cnt == Cardinality(InvalidIn7Days(u))
                due ==
                  /\ cnt >= 2
                  /\ ~HasOpenCase(u, "gps_violation",
                                  now - 7 * MinutesPerDay)
            IN  IF due
                THEN /\ Cardinality(made) = 1
                     /\ \A i \in made :
                          /\ anomalies'[i].details.violation_count = cnt
                          /\ anomalies'[i].status = "detected"
                ELSE made = {}]_vars

\* a scan has just created a gps_violation case counting 2 violations for
\* a worker whose ledger holds exactly those 2 invalid records
C12_Witness ==
    /\ last.op = "scan_anomalies" /\ last.status = 200 /\ last.time = now
    /\ last.detected_count >= 1
    /\ \E i \in 1..Len(anomalies) :
          /\ anomalies[i].anomaly_type = "gps_violation"
          /\ anomalies[i].created_at = now
          /\ anomalies[i].details.violation_count = 2
          /\ Cardinality(InvalidIn7Days(anomalies[i].user_id)) = 2

\* the worker's check_in records of the last 14 days with no check_out of
\* the worker on the same calendar date
UnclosedIn14Days(u) ==
    { i \in 1..Len(attendance) :
        /\ attendance[i].user_id = u
        /\ attendance[i].check_type = "check_in"
        /\ now - attendance[i].check_time <= 14 * MinutesPerDay
        /\ \A j \in 1..Len(attendance) :
              (/\ attendance[j].user_id = u
               /\ attendance[j].check_type = "check_out")
              => DATE(attendance[j].check_time)
                   # DATE(attendance[i].check_time) }

\* C13: when the no_checkout_3 rule is active, a scan creates one
\* no_checkout case, with no_checkout_count = the number of the worker's
\* check_in records of the last 14 days that have no check_out by the same
\* worker on the same calendar date, for exactly the workers for whom that
\* number is at least the threshold (3 by default) and who have no open
\* no_checkout case created in the last 14 days.
C13_NoCheckout ==
    [][ScanStep /\ rules["no_checkout_3"].is_active =>
         \A u \in Users :
            LET made == Inserted(u, "no_checkout")
                cnt == Cardinality(UnclosedIn14Days(u))
                due ==
                  /\ cnt >= ThresholdOf("no_checkout_3")
                  /\ ~HasOpenCase(u, "no_checkout",
                                  now - 14 * MinutesPerDay)
            IN  IF due
                THEN /\ Cardinality(made) = 1
                     /\ \A i \in made :
                          /\ anomalies'[i].details.no_checkout_count = cnt
                          /\ anomalies'[i].status = "detected"
                ELSE made = {}]_vars

\* a scan has just created a no_checkout case counting 2 under a threshold
\* of 2 for a worker who checked in on two days and never out
C13_Witness ==
    /\ last.op = "scan_anomalies" /\ last.status = 200 /\ last.time = now
    /\ last.detected_count >= 1
    /\ rules["no_checkout_3"].threshold = 2
    /\ \E i \in 1..Len(anomalies) :
          /\ anomalies[i].anomaly_type = "no_checkout"
          /\ anomalies[i].created_at = now
          /\ anomalies[i].details.no_checkout_count = 2
          /\ Cardinality(UnclosedIn14Days(anomalies[i].user_id)) = 2

\* the ids of the notifications the step inserts
Notified == (Len(notifications) + 1)..Len(notifications')

\* C14: a scan that creates at least one case inserts exactly one
\* notification for each user whose admin_level is at least 5 and none for
\* any other user, each stating the number of cases the scan created; a scan
\* that creates no case inserts no notification.
C14_AdminNotifications ==
    [][ScanStep =>
         LET found == Len(anomalies') - Len(anomalies)
         IN  /\ SubSeq(notifications', 1, Len(notifications)) = notifications
             /\ found = 0 => Notified = {}
             /\ found >= 1 =>
                   /\ \A u \in Users :
                         Cardinality({ i \in Notified :
                                         notifications'[i].user_id = u })
                           = IF kwv_users(u).admin_level >= 5 THEN 1 ELSE 0
                   /\ \A i \in Notified :
                         notifications'[i].count = found]_vars

\* a scan has just created 2 cases, and the newest notifications are one
\* for administrator 4 (level 9) and one for administrator 6 (level 5),
\* each counting 2, and there is no other notification
C14_Witness ==
    /\ last.op = "scan_anomalies" /\ last.status = 200
    /\ last.detected_count = 2
    /\ Len(anomalies) = 2
    /\ Len(notifications) = 2
    /\ { notifications[i].user_id : i \in 1..2 } = {4, 6}
    /\ \A i \in 1..2 : notifications[i].count = 2

----------------------------------------------------------------------------
(* Error answers *)

\* the workplace ids a request can carry: the rows, none, and an id of no row
WpIdInputs == WpIds \cup {NULL, Cardinality(WpIds) + 1}

\* C19: attendance_check answers 400 when the request carries neither a
\* workplace_id nor a qr_code, 404 when its workplace_id names no workplace
\* or when its qr_code, sent alone, matches no active workplace, and 429
\* when the ledger holds a record of the same worker, workplace and
\* check_type less than 5 minutes old; each of them is an error response
\* and writes no record.
C19_AttendanceErrors ==
    \A u \in Workers, w \in WpIdInputs, q \in QrInputs \cup {nextQr} :
      \A t \in CheckTypes :
        LET out == AttOutcome(TRUE, u, w, q, t, NULL, NULL)
            target == IF w # NULL THEN {w} \cap WpIds
                      ELSE { x \in WpIds : workplaces[x].is_active
                                             /\ workplaces[x].qr_code = q }
        IN  /\ (w = NULL /\ q = NULL) => out.status = 400
            /\ (w # NULL /\ w \notin WpIds) => out.status = 404
            /\ (w = NULL /\ q # NULL /\ target = {}) => out.status = 404
            /\ (\E x \in target : \E i \in MatchingRows(u, x, t) :
                   now - attendance[i].check_time < DUPLICATE_MINUTES)
                 => out.status = 429
            /\ out.status \in {400, 404, 429} => DOMAIN out = {"status"}

\* a request naming workplace 3, which does not exist, has just been
\* answered 404 and has left the ledger as it was, with a record in it that
\* is less than 5 minutes old
C19_Witness ==
    /\ last.op = "attendance_check" /\ last.status = 404
    /\ last.workplace_id = 3
    /\ \E i \in 1..Len(attendance) :
          now - attendance[i].check_time < DUPLICATE_MINUTES

\* C20: a resolve request that names an anomaly case id of no row is
\* answered 404 and changes no case.
C20_UnknownCaseNotFound ==
    [][\A id \in 1..(MaxCases + 1), st \in StatusInputs :
          (id > Len(anomalies) /\ resolve_anomaly(TRUE, 4, id, st))
            => (last'.status = 404 /\ anomalies' = anomalies)]_vars

----------------------------------------------------------------------------
(* Properties of the assignments *)

\* the rows of one (worker, workplace) with the given status
AssignmentsOf(u, w, status) ==
    { i \in 1..Len(assignments) :
        /\ assignments[i].user_id = u
        /\ assignments[i].workplace_id = w
        /\ assignments[i].status = status }

\* C18: requests served one after another leave every (worker, workplace)
\* with at most one active assignment: assign_worker on a pair that has one
\* answers 409 and writes nothing, and on a pair that has none, whatever
\* completed rows it has, adds an active row and keeps the others;
\* remove_assignment turns an active row into a completed one and deletes
\* nothing.
C18_OneActiveAssignment ==
    /\ \A u \in Workers, w \in WpIds :
          LET out == AssignOutcome(TRUE, 4, w, u)
          IN  /\ Cardinality(AssignmentsOf(u, w, "active")) <= 1
              /\ IF AssignmentsOf(u, w, "active") # {}
                 THEN /\ out.status = 409
                      /\ out.assignments = assignments
                 ELSE /\ out.status = 200
                      /\ Len(out.assignments) = Len(assignments) + 1
                      /\ SubSeq(out.assignments, 1, Len(assignments))
                           = assignments
                      /\ out.assignments[Len(out.assignments)]
                           = [user_id |-> u, workplace_id |-> w,
                              status |-> "active"]
    /\ \A i \in 1..Len(assignments) :
          assignments[i].status = "active" =>
            LET out == RemoveOutcome(TRUE, 4, i)
            IN  /\ out.status = 200
                /\ Len(out.assignments) = Len(assignments)
                /\ out.assignments[i]
                     = [assignments[i] EXCEPT !.status = "completed"]
                /\ \A j \in 1..Len(assignments) :
                      j # i => out.assignments[j] = assignments[j]

\* worker 1 has been assigned to workplace 1, removed and assigned again:
\* the pair has a completed row and an active one, and a further
\* assign_worker has just been answered 409
C18_Witness ==
    /\ last.op = "assign_worker" /\ last.status = 409
    /\ AssignmentsOf(1, 1, "completed") # {}
    /\ Cardinality(AssignmentsOf(1, 1, "active")) = 1

----------------------------------------------------------------------------
(* The ledger *)

\* C17: the attendance ledger is append-only: a step of any operation
\* (attendance checks, manual entries, update_workplace, regenerate_qr,
\* assign_worker, remove_assignment, scans) leaves every record already
\* written in its place and as it was written, is_valid, distance and
\* invalid_reason included.
C17_LedgerAppendOnly ==
    [][/\ Len(attendance') >= Len(attendance)
       /\ SubSeq(attendance', 1, Len(attendance)) = attendance]_vars

\* the ledger holds a record written as valid at 166 m from workplace 1,
\* whose radius has since been cut to 100 m, whose token has been replaced,
\* and from which the worker's assignment has been removed; a scan has
\* opened a case and a later record has been appended
C17_Witness ==
    /\ Len(attendance) = 2
    /\ attendance[1].workplace_id = 1
    /\ attendance[1].is_valid
    /\ attendance[1].distance > workplaces[1].geofence_radius
    /\ attendance[1].invalid_reason = NO_TEXT
    /\ workplaces[1].qr_code \notin {1, 2}
    /\ \E i \in 1..Len(assignments) : assignments[i].status = "completed"
    /\ Len(anomalies) >= 1

----------------------------------------------------------------------------
(* Requests served at the same time *)

\* C15: the duplicate guard of attendance_check is a read followed by a
\* write with no lock: a request that has passed its duplicate query is
\* accepted and appends its record whatever has been inserted since, so
\* that when another request of the same worker, workplace and check_type
\* passed its query before either inserted, the ledger ends with two
\* records of the triple less than 5 minutes apart.
C15_GuardIsNotAtomic ==
    [][\A i \in 1..Len(pending) :
          attendance_check_write(i) =>
            LET row == pending[i].rows[1]
                recent ==
                  { j \in MatchingRows(row.user_id, row.workplace_id,
                                       row.check_type) :
                      now - attendance[j].check_time < DUPLICATE_MINUTES }
                n == Len(attendance')
            IN  /\ last'.status = 200
                /\ n = Len(attendance) + 1
                /\ \A j \in recent :
                      /\ attendance'[j].user_id = attendance'[n].user_id
                      /\ attendance'[j].workplace_id
                           = attendance'[n].workplace_id
                      /\ attendance'[j].check_type
                           = attendance'[n].check_type
                      /\ attendance'[n].check_time
                           - attendance'[j].check_time < DUPLICATE_MINUTES]_vars

\* two check_in submissions of worker 1 at workplace 1 have both been
\* accepted: the ledger holds their two records, 4 minutes apart
C15_Witness ==
    /\ last.op = "attendance_check" /\ last.status = 200
    /\ Len(attendance) = 2
    /\ attendance[1].user_id = attendance[2].user_id
    /\ attendance[1].workplace_id = attendance[2].workplace_id
    /\ attendance[1].check_type = attendance[2].check_type
    /\ attendance[1].check_method = "gps"
    /\ attendance[2].check_method = "gps"
    /\ attendance[2].check_time - attendance[1].check_time
         = DUPLICATE_MINUTES - 1

\* C16: the duplicate query of scan_anomalies is a read followed by a write
\* with no lock: a scan that has run its queries commits every row it
\* inserted whatever has been committed since, so that when another scan
\* ran its open-case query for the same worker and rule before either
\* committed, the worker ends with two open cases of the type inside the
\* rule's window.
C16_DedupIsNotAtomic ==
    [][\A i \in 1..Len(pending) :
          scan_anomalies_commit(i) =>
            LET rows == pending[i].rows
            IN  /\ last'.status = 200
                /\ last'.detected_count = Len(rows)
                /\ anomalies' = anomalies \o rows
                /\ \A k \in 1..Len(rows) :
                      \A j \in OpenInWindow(rows[k].user_id,
                                             rows[k].anomaly_type) :
                         /\ anomalies'[j].status \in OpenStatuses
                         /\ anomalies'[Len(anomalies) + k].status
                              \in OpenStatuses
                         /\ InDedupWindow(rows[k].anomaly_type,
                                          anomalies'[j].created_at,
                                          anomalies'[Len(anomalies)
                                                     + k].created_at)]_vars

\* two scans have both reported one new case: worker 1 has two open
\* no_checkout cases, created at the same minute
C16_Witness ==
    /\ last.op = "scan_anomalies" /\ last.status = 200
    /\ last.detected_count = 1
    /\ Len(anomalies) = 2
    /\ \A i \in 1..2 :
          /\ anomalies[i].user_id = 1
          /\ anomalies[i].anomaly_type = "no_checkout"
          /\ anomalies[i].status = "detected"
    /\ anomalies[1].created_at = anomalies[2].created_at

----------------------------------------------------------------------------
(* Skipped rules *)

\* the anomaly_type of the cases a rule creates
TypeOf(key) ==
    IF key = "absent_3days" THEN "absent_streak"
    ELSE IF key = "gps_violation" THEN "gps_violation"
    ELSE "no_checkout"

\* the rule has a row and the row is active
RuleOn(key) == key \in DOMAIN rules /\ rules[key].is_active

\* the condition of a rule holds for the worker and no open case of the
\* rule's window stands in the way; it names the rule's own row only
DueUnder(key, u) ==
    IF key = "absent_3days"
    THEN /\ kwv_users(u).user_type = "applicant"
         /\ kwv_users(u).is_active /\ kwv_users(u).is_approved
         /\ CheckinDates(u) # {}
         /\ DATE(now) - Max(CheckinDates(u)) >= ThresholdOf(key)
         /\ ~HasOpenCase(u, "absent_streak", Midnight)
    ELSE IF key = "gps_violation"
    THEN /\ Cardinality(InvalidIn7Days(u)) >= 2
         /\ ~HasOpenCase(u, "gps_violation", now - 7 * MinutesPerDay)
    ELSE /\ Cardinality(UnclosedIn14Days(u)) >= ThresholdOf(key)
         /\ ~HasOpenCase(u, "no_checkout", now - 14 * MinutesPerDay)

\* C21: a rule that has no row in the rule table, or whose row is not
\* active, is skipped: a scan creates no case of its anomaly type whatever
\* the attendance data; and the cases a scan creates for an active rule are
\* those of that rule alone, whichever other rules are on, off or missing.
C21_InactiveRuleSkipped ==
    [][ScanStep =>
         \A key \in DOMAIN RuleTable, u \in Users :
            Cardinality(Inserted(u, TypeOf(key)))
              = IF RuleOn(key) /\ DueUnder(key, u) THEN 1 ELSE 0]_vars

\* a scan has just created an absent_streak case, its only case, for worker
\* 1, who also has a check_in without check_out and 2 invalid records in
\* the last 7 days: no_checkout_3 has no row and gps_violation is switched
\* off
C21_Witness ==
    /\ last.op = "scan_anomalies" /\ last.status = 200 /\ last.time = now
    /\ "no_checkout_3" \notin DOMAIN rules
    /\ "gps_violation" \in DOMAIN rules /\ ~rules["gps_violation"].is_active
    /\ Cardinality(UnclosedIn14Days(1)) >= 1
    /\ Cardinality(InvalidIn7Days(1)) >= 2
    /\ Len(anomalies) >= 1
    /\ \A i \in 1..Len(anomalies) :
          anomalies[i].anomaly_type = "absent_streak"

----------------------------------------------------------------------------
(* The daily summary *)

\* the workplace filters of a summary request: none, or a workplace
SummaryFilters == {NULL} \cup WpIds

\* the active assignments a summary counts
CountedAssignments(w) ==
    { i \in 1..Len(assignments) :
        /\ assignments[i].status = "active"
        /\ w # NULL => assignments[i].workplace_id = w }

\* the workers who checked in today
CheckedInToday(w) ==
    { attendance[i].user_id :
        i \in { j \in 1..Len(attendance) :
                  /\ DATE(attendance[j].check_time) = DATE(now)
                  /\ attendance[j].check_type = "check_in"
                  /\ w # NULL => attendance[j].workplace_id = w } }

\* C22 as stated: the summary's attendance_rate is 0 when it counts no
\* active assignment, and otherwise is exactly the number of distinct
\* workers who checked in on the date / the number of active assignments
\* x 100.
C22_AsStated ==
    \A w \in SummaryFilters :
       LET out == SummaryOutcome(TRUE, 4, NULL, w)
           n == Cardinality(CountedAssignments(w))
           c == Cardinality(CheckedInToday(w))
       IN  /\ out.status = 200
           /\ n = 0 => out.attendance_rate = 0
           /\ n > 0 => out.attendance_rate * n = 1000 * c

\* C22: the summary's attendance_rate is 0, and no error, when it counts no
\* active assignment, and otherwise is the number of distinct workers who
\* checked in on the date / the number of active assignments x 100 rounded
\* to one decimal place (attendance_rate is in tenths of a percent here).
C22_RateRounded ==
    \A w \in SummaryFilters :
       LET out == SummaryOutcome(TRUE, 4, NULL, w)
           n == Cardinality(CountedAssignments(w))
           c == Cardinality(CheckedInToday(w))
       IN  /\ out.status = 200
           /\ out.total_workers = n /\ out.total_checkins = c
           /\ n = 0 => out.attendance_rate = 0
           /\ n > 0 =>
                 2 * Abs(out.attendance_rate * n - 1000 * c) <= n

\* a summary has just reported 2 of 3: 2 workers checked in today, 3
\* assignments are active, and the rate is 66.7
C22_Witness ==
    /\ last.op = "attendance_summary"
    /\ last.response.status = 200
    /\ "attendance_rate" \in DOMAIN last.response
    /\ last.response.total_checkins = 2
    /\ last.response.total_workers = 3
    /\ last.response.attendance_rate = 667

----------------------------------------------------------------------------
(* Faults inside a scan *)

\* a scan that stopped at the INSERT of a notification
NotifyErrorStep ==
    \E k \in 1..Len(UserOrder) : scan_anomalies_notify_error(TRUE, 4, k)

\* C23: when the insert of a notification fails during the fan-out, the
\* failure is swallowed: the cases the scan created are persisted and the
\* scan still returns its result.
C23_NotificationFailureSwallowed ==
    [][NotifyErrorStep =>
         /\ anomalies' = anomalies \o ScanCases
         /\ last'.status = 200
         /\ last'.detected_count = Len(ScanCases)]_vars

\* a scan that stopped at a database error in the block of rule key
RuleErrorStep(key) == scan_anomalies_rule_error(TRUE, 4, key)

\* C24 as stated: when a scan stops while a later rule is evaluated, the
\* cases inserted by the earlier rules remain persisted.
C24_AsStated ==
    [][\A key \in DOMAIN RuleTable :
          RuleErrorStep(key) => anomalies' = anomalies \o CasesBefore(key)]_vars

\* C24: the cases of all three rules are one transaction, committed once
\* after the third rule: a scan that stops at an error while a rule is
\* evaluated persists no case and no notification, those of the earlier
\* rules included; what a scan has committed stays when the fan-out of
\* notifications fails afterwards.
C24_CasesCommittedOnce ==
    [][/\ \A key \in DOMAIN RuleTable :
            RuleErrorStep(key) =>
              /\ anomalies' = anomalies
              /\ notifications' = notifications
              /\ last'.status = 500
       /\ NotifyErrorStep =>
            /\ anomalies' = anomalies \o ScanCases
            /\ notifications' = notifications]_vars

\* a scan has stopped in the block of the third rule on the fourth day,
\* when the first rule had a case to insert for worker 1, and no case is
\* in the table
C24_Witness ==
    /\ last.op = "scan_anomalies"
    /\ last.status = 500
    /\ last.failed = "no_checkout_3"
    /\ AbsentFlagged(1)
    /\ anomalies = <<>>

----------------------------------------------------------------------------
(* Which statuses count as open *)

\* the first minute of the window in which a rule looks for an open case
WindowStart(key) ==
    IF key = "absent_3days" THEN Midnight
    ELSE IF key = "gps_violation" THEN now - 7 * MinutesPerDay
    ELSE now - 14 * MinutesPerDay

\* the statuses of the worker's cases of the rule's type that were created
\* in the rule's window
StatusesInWindow(key, u) ==
    { anomalies[i].status :
        i \in { j \in 1..Len(anomalies) :
                  /\ anomalies[j].user_id = u
                  /\ anomalies[j].anomaly_type = TypeOf(key)
                  /\ anomalies[j].created_at >= WindowStart(key) } }

\* the condition of a rule holds for the worker, open cases aside
ConditionHolds(key, u) ==
    IF key = "absent_3days"
    THEN /\ kwv_users(u).user_type = "applicant"
         /\ kwv_users(u).is_active /\ kwv_users(u).is_approved
         /\ CheckinDates(u) # {}
         /\ DATE(now) - Max(CheckinDates(u)) >= ThresholdOf(key)
    ELSE IF key = "gps_violation"
    THEN Cardinality(InvalidIn7Days(u)) >= 2
    ELSE Cardinality(UnclosedIn14Days(u)) >= ThresholdOf(key)

\* C25: the duplicate check of a scan counts exactly the statuses detected
\* and reviewing as open: a case of the worker and type in the rule's window
\* that is detected or reviewing suppresses a new case, reviewing like
\* detected; a resolved or closed case does not, so a scan run after the
\* resolution while the condition still holds creates a new case.
C25_OpenMeansDetectedOrReviewing ==
    [][ScanStep =>
         \A key \in DOMAIN RuleTable, u \in Users :
            LET made == Inserted(u, TypeOf(key))
                found == StatusesInWindow(key, u)
            IN  /\ found \cap {"detected", "reviewing"} # {} => made = {}
                /\ ConditionHolds(key, u)
                      /\ found \subseteq {"resolved", "closed"}
                     => Cardinality(made) = 1]_vars

\* a scan has just created case 2 for the worker and type of case 1, which
\* was created within the rule's window and has been resolved
C25_Witness ==
    /\ last.op = "scan_anomalies" /\ last.status = 200 /\ last.time = now
    /\ Len(anomalies) = 2
    /\ anomalies[1].status = "resolved"
    /\ anomalies[2].status = "detected"
    /\ anomalies[2].created_at = now
    /\ anomalies[2].user_id = anomalies[1].user_id
    /\ anomalies[2].anomaly_type = anomalies[1].anomaly_type
    /\ anomalies[1].created_at >= now - 7 * MinutesPerDay
    /\ DATE(anomalies[1].created_at) = DATE(now)

----------------------------------------------------------------------------
(* Coordinates 0 *)

\* the step appends a record to the ledger
Appends == Len(attendance') = Len(attendance) + 1

\* C26: attendance_check skips the distance check whenever a submitted
\* coordinate or a coordinate of the workplace is 0: the record is written
\* with is_valid true, no distance and no reason, however far the worker is
\* from the workplace.
C26_ZeroCoordinateSkipsCheck ==
    [][Appends =>
         LET r == attendance'[Len(attendance')]
             wp == workplaces[r.workplace_id]
         IN  0 \in {r.latitude, r.longitude, wp.latitude, wp.longitude}
               => /\ r.is_valid
                  /\ r.distance = NULL
                  /\ r.invalid_reason = NO_TEXT]_vars

\* the ledger holds a record submitted from the equator, valid and without
\* a distance, and a record submitted 3500 microdegrees north of the site,
\* valid and without a distance, for a workplace whose registered longitude
\* is 0 and whose latitude is the site's
C26_Witness ==
    /\ Len(attendance) = 2
    /\ attendance[1].latitude = 0
    /\ attendance[1].is_valid /\ attendance[1].distance = NULL
    /\ attendance[2].latitude = SiteLat + 3500
    /\ attendance[2].longitude = SiteLon
    /\ attendance[2].is_valid /\ attendance[2].distance = NULL
    /\ workplaces[1].longitude = 0
    /\ workplaces[1].latitude = SiteLat
    /\ last.op = "attendance_check" /\ last.status = 200

----------------------------------------------------------------------------
(* Inactive workplaces *)

\* C27: the active flag of a workplace is consulted on the QR path only: a
\* submission that names an inactive workplace by workplace_id is accepted
\* (or refused as a duplicate, like any other) and its record is for that
\* workplace, while a submission that carries only that workplace's QR
\* token is answered 404.
C27_ActiveFlagOnQrPathOnly ==
    \A w \in WpIds, u \in Workers, t \in CheckTypes :
       ~workplaces[w].is_active =>
         LET byId == AttOutcome(TRUE, u, w, NULL, t, NULL, NULL)
             byQr == AttOutcome(TRUE, u, NULL, workplaces[w].qr_code, t,
                                NULL, NULL)
         IN  /\ byId.status \in {200, 429}
             /\ byId.status = 429 <=> DuplicateRows(u, w, t) # {}
             /\ byId.status = 200 => byId.row.workplace_id = w
             /\ byQr.status = 404

\* a submission by workplace_id 1 has just been accepted and recorded while
\* workplace 1 is inactive
C27_Witness ==
    /\ last.op = "attendance_check" /\ last.status = 200
    /\ last.workplace_id = 1
    /\ ~workplaces[1].is_active
    /\ Len(attendance) >= 1
    /\ attendance[Len(attendance)].workplace_id = 1
    /\ attendance[Len(attendance)].check_time = now

----------------------------------------------------------------------------
(* Workers who never checked in; cases of earlier days *)

\* C28: absent_streak never creates a case for a worker who has no check_in
\* record at all, approved and active or not, however many scans run and
\* however many days pass: a scan inserts none, so the table holds none.
C28_NeverCheckedInNeverFlagged ==
    [][/\ ScanStep =>
            \A u \in Users :
               CheckinDates(u) = {} => Inserted(u, "absent_streak") = {}
       /\ \A i \in 1..Len(anomalies') :
            anomalies'[i].anomaly_type = "absent_streak"
              => \E j \in 1..Len(attendance') :
                    /\ attendance'[j].user_id = anomalies'[i].user_id
                    /\ attendance'[j].check_type = "check_in"]_vars

\* on day 15 a scan has just left worker 2, an approved and active
\* applicant without any check_in record, without a case, and worker 1,
\* whose last check_in is of day 0, with one
C28_Witness ==
    /\ last.op = "scan_anomalies" /\ last.status = 200 /\ last.time = now
    /\ DATE(now) = 15
    /\ "absent_3days" \in DOMAIN rules
    /\ kwv_users(2).user_type = "applicant"
    /\ kwv_users(2).is_active /\ kwv_users(2).is_approved
    /\ CheckinDates(2) = {}
    /\ \A i \in 1..Len(anomalies) : anomalies[i].user_id # 2
    /\ \E i \in 1..Len(anomalies) :
          /\ anomalies[i].user_id = 1
          /\ anomalies[i].anomaly_type = "absent_streak"
          /\ anomalies[i].created_at = now

\* the worker's open absent_streak cases that were created before today
OlderOpenAbsent(u) ==
    { i \in 1..Len(anomalies) :
        /\ anomalies[i].user_id = u
        /\ anomalies[i].anomaly_type = "absent_streak"
        /\ anomalies[i].status \in {"detected", "reviewing"}
        /\ DATE(anomalies[i].created_at) < DATE(now) }

\* C29: the duplicate check of absent_streak looks only at cases created
\* today: a scan on a later day creates a further case for a worker who is
\* still absent although an open absent_streak case of an earlier day
\* exists, so one worker can hold two or more open absent_streak cases.
C29_AbsentCasesAccumulate ==
    [][ScanStep /\ "absent_3days" \in DOMAIN rules =>
         \A u \in Users :
            (/\ OlderOpenAbsent(u) # {}
             /\ ConditionHolds("absent_3days", u)
             /\ ~HasOpenCase(u, "absent_streak", Midnight))
              => /\ Cardinality(Inserted(u, "absent_streak")) = 1
                 /\ \A i \in OlderOpenAbsent(u) :
                       anomalies'[i].status = anomalies[i].status]_vars

\* worker 1 holds two open absent_streak cases, created on different days
C29_Witness ==
    /\ Len(anomalies) = 2
    /\ \A i \in 1..2 :
          /\ anomalies[i].user_id = 1
          /\ anomalies[i].anomaly_type = "absent_streak"
          /\ anomalies[i].status = "detected"
    /\ DATE(anomalies[1].created_at) < DATE(anomalies[2].created_at)
    /\ last.op = "scan_anomalies" /\ last.status = 200

----------------------------------------------------------------------------
(* Shifts in progress *)

\* the worker's check_in records of today that no check_out record of the
\* worker of today answers yet
OpenShiftsToday(u) ==
    { i \in 1..Len(attendance) :
        /\ attendance[i].user_id = u
        /\ attendance[i].check_type = "check_in"
        /\ DATE(attendance[i].check_time) = DATE(now)
        /\ ~\E j \in 1..Len(attendance) :
              /\ attendance[j].user_id = u
              /\ attendance[j].check_type = "check_out"
              /\ DATE(attendance[j].check_time) = DATE(now) }

\* every check_in record of the worker has a check_out record of the worker
\* of the same calendar date, at whatever workplace and time
AllShiftsAnswered(u) ==
    \A i \in 1..Len(attendance) :
       attendance[i].user_id = u /\ attendance[i].check_type = "check_in"
         => \E j \in 1..Len(attendance) :
               /\ attendance[j].user_id = u
               /\ attendance[j].check_type = "check_out"
               /\ DATE(attendance[j].check_time)
                    = DATE(attendance[i].check_time)

\* C30: no_checkout counts a check_in of the current day that has no
\* check_out yet, a shift still in progress: with threshold 1 such a
\* check_in alone makes the scan create a case.  A check_in is matched by
\* any check_out of the same worker on the same calendar date, at any
\* workplace, earlier or later: a worker whose check_ins all have one gets
\* no case.
C30_ShiftInProgressCounts ==
    [][ScanStep =>
         \A u \in Users :
            /\ (/\ OpenShiftsToday(u) # {}
                /\ ThresholdOf("no_checkout_3") = 1
                /\ ~HasOpenCase(u, "no_checkout", now - 14 * MinutesPerDay))
                 => Cardinality(Inserted(u, "no_checkout")) = 1
            /\ AllShiftsAnswered(u) => Inserted(u, "no_checkout") = {}]_vars

\* a scan has just created a no_checkout case for worker 1 in the minute of
\* the worker's only record, a check_in
C30_Witness ==
    /\ last.op = "scan_anomalies" /\ last.status = 200 /\ last.time = now
    /\ Len(attendance) = 1
    /\ attendance[1].check_type = "check_in"
    /\ attendance[1].check_time = now
    /\ \E i \in 1..Len(anomalies) :
          /\ anomalies[i].user_id = 1
          /\ anomalies[i].anomaly_type = "no_checkout"
          /\ anomalies[i].created_at = now
          /\ anomalies[i].details.no_checkout_count = 1

=============================================================================
